---- MODULE Spec2Model ----
(***************************************************************************)
(* Verification model of the Icarus chess engine's coordination core:      *)
(*   - util/command_channel.rs : one-capacity spmc broadcast channel       *)
(*   - search/searcher.rs      : Searcher, worker_thread_loop, id_loop     *)
(*   - search/search.rs        : control flow of search()                  *)
(*   - search/time_manager.rs  : limits, stop flag                         *)
(*   - search/transposition_table.rs, score.rs : lock-free TT, mate scores *)
(*                                                                         *)
(* Threads interleave at the granularity of their atomic operations; the   *)
(* atomics are modelled as sequentially consistent.  A futex wait is the   *)
(* atomic compare-and-park of atomic_wait::wait; a parked thread resumes   *)
(* by wake_all or spuriously.                                              *)
(***************************************************************************)
EXTENDS Integers, Sequences, FiniteSets, TLC

\* ------------------------------------------------------------------ bounds
\* Receivers of the channel in the stand-alone channel specification.
NumReceivers == 2
\* Messages sent in the stand-alone channel specification.
MaxMsgs == 3
\* util::MAX_PLY, scaled down (the engine uses a few hundred plies).
MAX_PLY == 10
\* `go` commands accepted per run.
MaxSearches == 2
\* Legal moves of a position.
NumMoves == 2
\* Largest late-move reduction returned by get_lmr.
MaxLmr == 1
\* Frames of search() kept explicitly on the call stack; a call made at
\* that height is resolved in one step.
MaxStack == 3

\* Entries of the transposition table.
TTLen == 2
\* Threads that call the transposition table concurrently.
NumTTThreads == 2
\* Calls of store / fetch these threads make in total.
MaxTTOps == 3

\* ------------------------------------------------------------- variables
VARIABLES
  \* command_channel.rs: Shared<M>
  msg,            \* Shared.msg : Option<M>  (NoMsg or the message)
  futex,          \* Shared.futex : the packed u32, [gen, threads]
  num_receivers,  \* Shared.num_receivers
  \* sender thread (the UCI thread in the searcher)
  upc,            \* position of the sender / UCI thread
  sMsg,           \* send(): argument m
  sGen,           \* send(): generation unpacked from the first load
  sFutex,         \* send(): local `futex` of the wait loop
  \* receivers (the worker threads in the searcher)
  wpc,            \* position of each receiver / worker
  rGen,           \* Receiver.generation
  rFutex,         \* recv(): local `futex` of the wait loop
  rRet,           \* recv(): value returned by the handler (cmd.clone())
  \* history
  sent,           \* messages written into the cell, in order
  handled,        \* per receiver: messages its handler ran on, in order
  \* searcher.rs: GlobalCtx / Searcher, engine.rs: UCI thread
  num_searching,  \* GlobalCtx.num_searching
  tm,             \* GlobalCtx.time_manager
  uLimits,        \* Engine::go: the limits of the `go` being handled
  uNum,           \* Searcher::wait: local `num_searching`
  \* searcher.rs: ThreadCtx and the locals of id_loop
  root_moves,     \* ThreadCtx.root_moves
  abort_now,      \* ThreadCtx.abort_now
  root_pv,        \* ThreadCtx.root_pv (head only)
  ss0pv,          \* ThreadCtx.search_stack[0].pv (head only)
  singularAt,     \* plies whose search_stack[ply].singular is Some
  depth,          \* id_loop: depth
  last,           \* id_loop: last
  stack,          \* call stack of search(): frames, innermost last
  \* history of the searcher
  searchCount,    \* searches started by Searcher::search
  goLimits,       \* limits of the search started last
  wLimits,        \* limits of the search the worker is running
  stopIds,        \* searches during which the stop flag was set
  wId,            \* search the worker is running
  printCount,     \* bestmove lines printed
  bestmove,       \* move of the last bestmove line (0: none yet)
  completed,      \* an iteration of this search completed without abort
  latchedPv,      \* root PV at the end of the last completed iteration
  d1Done,         \* root moves fully searched during the depth-1 iteration
  ttStored,       \* a TT store happened in this search
  ttStoreAfterAbort, \* a TT store happened while abort_now was set
  \* transposition_table.rs: TTable and the threads that call it
  entries,        \* TTable.entries : index -> [key, data], two u64 words
  age,            \* TTable.age
  tpc,            \* per thread: position inside store() / fetch()
  targ,           \* per thread: arguments of the call
  tloc,           \* per thread: locals key, data (loaded), new, old
  tops,           \* per thread: calls made
  \* history of the table
  rets,           \* per thread: the fetch calls that returned, in order
  entryTag,       \* per entry: the store call that wrote key / data (0: none)
  ttag,           \* per thread: store calls of the words loaded, own call
  storeLog,       \* store calls in the order of their key stores
  mate,           \* the score and plies a store / fetch / fetch run uses
  \* move_picker.rs: MovePicker and the move loop that drives it
  picker,         \* the MovePicker of the node
  pickPos,        \* the node's position as the picker sees it
  loopc,          \* the move loop: where it is, what it may still call
  yielded,        \* moves next() has returned, each with the stage it left
  \* icarus-board: a Board under play
  board,          \* the Board (NoBoard: none set up)
  walk,           \* moves made on it since it was read
  lastMove,       \* the move made last (NoMove: none)
  fenText,        \* board.fen(..) as written last (NoFen: none)
  fenMode,        \* the chess960 argument of that fen call
  reparsed,       \* <<read_fen(fenText)>> once it was read back
  \* nnue/network.rs: the Nnue of a worker, position.rs: Position
  nnue,           \* Nnue: [stack, idx] (NoNnue: none built)
  history,        \* Position.history with Position.moves
  \* engine.rs: Engine::run reading command lines
  uciChess960,    \* Engine.chess960
  linesRead,      \* lines read so far
  reply,          \* what became of the line read last
  prevBoard,      \* the board of the position before that line
  \* util/buffered_counter.rs: BufferedCounters on one backing atomic
  nodesAtomic,    \* GlobalCtx.nodes, the backing atomic
  counters,       \* per counter [local, buffer]
  cphase,         \* where the owner of each counter is in its search
  mphase,         \* where Searcher::search is
  incsSinceReset, \* per counter: inc() calls since its last reset_local
  incsSinceZero,  \* inc() calls of all counters since the atomic was zeroed
  bursts,         \* per counter: runs of inc() calls made so far
  \* search/time_manager.rs: the time budgets of one `go`
  goArgs,         \* the side to move, its limits and the move overhead
  budget,         \* TimeManager: [soft_time, base_time, hard_time, infinite, panicked]
  deepens         \* calls of deepen so far

chanVars == <<msg, futex, num_receivers, upc, sMsg, sGen, sFutex,
              wpc, rGen, rFutex, rRet, sent, handled>>

searcherVars == <<num_searching, tm, uLimits, uNum, root_moves, abort_now,
                  root_pv, ss0pv, singularAt, depth, last, stack, searchCount,
                  goLimits, wLimits, stopIds, wId, printCount, bestmove,
                  completed, latchedPv, d1Done, ttStored, ttStoreAfterAbort>>

pickerVars == <<picker, pickPos, loopc, yielded>>

boardVars == <<board, walk, lastMove, fenText, fenMode, reparsed>>

nnueVars == <<nnue, history>>

uciVars == <<uciChess960, linesRead, reply, prevBoard>>

counterVars == <<nodesAtomic, counters, cphase, mphase, incsSinceReset, incsSinceZero, bursts>>

timeVars == <<goArgs, budget, deepens>>

extraVars == <<nnueVars, uciVars, counterVars, timeVars>>

\* all of them but nnueVars
notNnueVars == <<uciVars, counterVars, timeVars>>

\* all of them but uciVars
notUciVars == <<nnueVars, counterVars, timeVars>>

\* all of them but counterVars
notCounterVars == <<nnueVars, uciVars, timeVars>>

\* all of them but timeVars
notTimeVars == <<nnueVars, uciVars, counterVars>>

posVars == <<pickerVars, boardVars, extraVars>>

tableVars == <<entries, age, tpc, targ, tloc, tops, rets, entryTag, ttag,
               storeLog, mate>>

ttVars == <<tableVars, posVars>>

searchVars == <<searcherVars, ttVars>>

vars == <<chanVars, searchVars>>

Receivers == 1..num_receivers

\* --------------------------------------------------- command_channel.rs
\* Low 31 bits of a u32 (u32::MAX >> 1).
ThreadsMask == 2147483647

\* The u32 futex word is kept as its two bit fields: bit 31 and bits 0..30.
pack_futex(threads, generation) == [gen |-> generation, threads |-> threads]

unpack_futex(f) == <<f.threads, f.gen>>

\* AtomicU32::fetch_sub(1) on the packed word: a borrow out of the low 31
\* bits flips bit 31 (and 0 wraps to u32::MAX).
FetchSub1(f) ==
  IF f.threads > 0 THEN [f EXCEPT !.threads = f.threads - 1]
  ELSE [gen |-> ~f.gen, threads |-> ThreadsMask]

\* Option<Vec<Move>>
None == [some |-> FALSE, moves |-> <<>>]
Some(ms) == [some |-> TRUE, moves |-> ms]

\* ThreadCmd values carried by the channel; a Search carries
\* SearchParams.root_moves.
Cmd(c, rm) == [cmd |-> c, root_moves |-> rm]
\* Option::None of the message cell.
NoMsg == Cmd("None", None)
\* The commands a receiver handles and then calls recv again.
ChanMsgs == {Cmd("Search", None), Cmd("NewGame", None)}

\* channel(num_receivers)
ChannelInit(n) ==
  /\ msg = NoMsg
  /\ futex = pack_futex(0, FALSE)
  /\ num_receivers = n
  /\ sMsg = NoMsg
  /\ sGen = FALSE
  /\ sFutex = pack_futex(0, FALSE)
  /\ wpc = [r \in 1..n |-> "recv_load"]
  /\ rGen = [r \in 1..n |-> TRUE]
  /\ rFutex = [r \in 1..n |-> pack_futex(0, FALSE)]
  /\ rRet = [r \in 1..n |-> NoMsg]
  /\ sent = <<>>
  /\ handled = [r \in 1..n |-> <<>>]

\* wake_all(&shared.futex): every thread parked on the word becomes runnable.
WokenSender(pc) == IF pc = "send_parked" THEN "send_wload" ELSE pc
WokenReceivers(pcs) ==
  [r \in DOMAIN pcs |-> IF pcs[r] = "recv_parked" THEN "recv_load" ELSE pcs[r]]

\* send(): let (threads, generation) = unpack_futex(futex.load(Relaxed))
SendLoad ==
  /\ upc = "send_load"
  /\ sGen' = unpack_futex(futex)[2]
  /\ upc' = "send_write"
  /\ UNCHANGED <<msg, futex, num_receivers, sMsg, sFutex, wpc, rGen, rFutex,
                 rRet, sent, handled>>
  /\ UNCHANGED searchVars

\* send(): *shared.msg.get() = Some(m)
SendWrite ==
  /\ upc = "send_write"
  /\ msg' = sMsg
  /\ sent' = Append(sent, sMsg)
  /\ upc' = "send_store"
  /\ UNCHANGED <<futex, num_receivers, sMsg, sGen, sFutex, wpc, rGen, rFutex,
                 rRet, handled>>
  /\ UNCHANGED searchVars

\* send(): futex.store(pack_futex(num_receivers, !generation), Release)
SendStore ==
  /\ upc = "send_store"
  /\ futex' = pack_futex(num_receivers, ~sGen)
  /\ upc' = "send_wake"
  /\ UNCHANGED <<msg, num_receivers, sMsg, sGen, sFutex, wpc, rGen, rFutex,
                 rRet, sent, handled>>
  /\ UNCHANGED searchVars

\* send(): atomic_wait::wake_all(&shared.futex)
SendWake ==
  /\ upc = "send_wake"
  /\ wpc' = WokenReceivers(wpc)
  /\ upc' = "send_wload"
  /\ UNCHANGED <<msg, futex, num_receivers, sMsg, sGen, sFutex, rGen, rFutex,
                 rRet, sent, handled>>
  /\ UNCHANGED searchVars

\* A sender that returns while one receiver is still outstanding.
SendMustWait_m(f) == unpack_futex(f)[1] > 1

\* send(): loop condition `unpack_futex(futex).0 != 0`
SendMustWait(f) == unpack_futex(f)[1] # 0

\* send(): futex = shared.futex.load(Acquire); test of the while loop.
\* The local is dead once the loop is left and is then cleared.
SendWaitLoad ==
  /\ upc = "send_wload"
  /\ sFutex' = IF SendMustWait(futex) THEN futex ELSE pack_futex(0, FALSE)
  /\ upc' = IF SendMustWait(futex) THEN "send_wait" ELSE "send_ret"
  /\ UNCHANGED <<msg, futex, num_receivers, sMsg, sGen, wpc, rGen, rFutex,
                 rRet, sent, handled>>
  /\ UNCHANGED searchVars

\* send(): atomic_wait::wait(&shared.futex, futex)
SendWait ==
  /\ upc = "send_wait"
  /\ upc' = IF futex = sFutex THEN "send_parked" ELSE "send_wload"
  /\ UNCHANGED <<msg, futex, num_receivers, sMsg, sGen, sFutex, wpc, rGen,
                 rFutex, rRet, sent, handled>>
  /\ UNCHANGED searchVars

\* recv(): loop condition `unpack_futex(futex).1 != self.generation`
RecvMustWait(f, generation) == unpack_futex(f)[2] # generation

\* recv(): futex = shared.futex.load(Acquire); test of the while loop.
\* The local is dead once the loop is left and is then cleared.
RecvLoad(r) ==
  /\ wpc[r] = "recv_load"
  /\ rFutex' = [rFutex EXCEPT ![r] =
                  IF RecvMustWait(futex, rGen[r]) THEN futex
                  ELSE pack_futex(0, FALSE)]
  /\ wpc' = [wpc EXCEPT ![r] =
               IF RecvMustWait(futex, rGen[r]) THEN "recv_wait" ELSE "recv_handle"]
  /\ UNCHANGED <<msg, futex, num_receivers, upc, sMsg, sGen, sFutex, rGen,
                 rRet, sent, handled>>
  /\ UNCHANGED searchVars

\* recv(): atomic_wait::wait(&shared.futex, futex)
RecvWait(r) ==
  /\ wpc[r] = "recv_wait"
  /\ wpc' = [wpc EXCEPT ![r] =
               IF futex = rFutex[r] THEN "recv_parked" ELSE "recv_load"]
  /\ UNCHANGED <<msg, futex, num_receivers, upc, sMsg, sGen, sFutex, rGen,
                 rFutex, rRet, sent, handled>>
  /\ UNCHANGED searchVars

\* A receiver that forgets to flip its generation.
NextGeneration_m(generation) == generation

\* recv(): self.generation = !self.generation
NextGeneration(generation) == ~generation

\* recv(): let ret = handler(msg.as_ref().unwrap()); flip the generation.
\* The handler of the program is |cmd| cmd.clone().
RecvHandle(r) ==
  /\ wpc[r] = "recv_handle"
  /\ msg # NoMsg
  /\ rRet' = [rRet EXCEPT ![r] = msg]
  /\ handled' = [handled EXCEPT ![r] = Append(@, msg)]
  /\ rGen' = [rGen EXCEPT ![r] = NextGeneration(@)]
  /\ wpc' = [wpc EXCEPT ![r] = "recv_sub"]
  /\ UNCHANGED <<msg, futex, num_receivers, upc, sMsg, sGen, sFutex, rFutex,
                 sent>>
  /\ UNCHANGED searchVars

\* A receiver that takes the new value of the word for the old one.
RecvIsLast_m(old) == unpack_futex(old)[1] = 0

\* recv(): `unpack_futex(shared.futex.fetch_sub(1, Release)).0 == 1`
RecvIsLast(old) == unpack_futex(old)[1] = 1

\* recv(): shared.futex.fetch_sub(1, Release)
RecvSub(r) ==
  /\ wpc[r] = "recv_sub"
  /\ futex' = FetchSub1(futex)
  /\ wpc' = [wpc EXCEPT ![r] = IF RecvIsLast(futex) THEN "recv_wake" ELSE "recv_ret"]
  /\ UNCHANGED <<msg, num_receivers, upc, sMsg, sGen, sFutex, rGen, rFutex,
                 rRet, sent, handled>>
  /\ UNCHANGED searchVars

\* recv(): atomic_wait::wake_all(&shared.futex) by the last receiver
RecvWake(r) ==
  /\ wpc[r] = "recv_wake"
  /\ upc' = WokenSender(upc)
  /\ wpc' = [WokenReceivers(wpc) EXCEPT ![r] = "recv_ret"]
  /\ UNCHANGED <<msg, futex, num_receivers, sMsg, sGen, sFutex, rGen, rFutex,
                 rRet, sent, handled>>
  /\ UNCHANGED searchVars

\* A futex wait may return without a wake (spurious wake-up).
ChanSpuriousWake ==
  /\ \/ /\ upc = "send_parked"
        /\ upc' = "send_wload"
        /\ UNCHANGED wpc
     \/ \E r \in Receivers :
          /\ wpc[r] = "recv_parked"
          /\ wpc' = [wpc EXCEPT ![r] = "recv_load"]
          /\ UNCHANGED upc
  /\ UNCHANGED <<msg, futex, num_receivers, sMsg, sGen, sFutex, rGen, rFutex,
                 rRet, sent, handled>>
  /\ UNCHANGED searchVars

\* ------------------------------------------------------ uci.rs: `go`
\* A `go` command: the kinds of SearchLimit it carries, the value of its
\* Depth limit and its SearchMoves list.
Lim(k, d, sm) == [kinds |-> k, depth |-> d, searchmoves |-> sm]

\* Legal moves of the root position, in gen_all_moves_to order.
RootLegal == [i \in 1..NumMoves |-> i]

\* The `go` commands issued to the engine.
GoLimitsAll ==
  { Lim({}, 0, None), Lim({"winc"}, 0, Some(<<NumMoves>>)),
    Lim({}, 0, Some(<<>>)), Lim({"btime"}, 0, None),
    Lim({"depth"}, 2, Some(<<NumMoves>>)), Lim({"nodes"}, 0, None),
    Lim({"movetime"}, 0, None), Lim({"wtime"}, 0, None) }

\* ------------------------------------------------- time_manager.rs
Min(a, b) == IF a <= b THEN a ELSE b
Max(a, b) == IF a >= b THEN a ELSE b

\* TimeManager::default()
TMDefault ==
  [stop |-> FALSE, infinite |-> FALSE, max_depth |-> 0,
   nodes_limited |-> TRUE, soft_limited |-> TRUE, hard_limited |-> TRUE]

\* init(): `infinite` stays true unless a WhiteTime, BlackTime, MoveTime,
\* Depth or Nodes limit is present.
TMInfinite(l) == l.kinds \cap {"wtime", "btime", "movetime", "depth", "nodes"} = {}

\* TimeManager::init(stm, limits) for White to move.  The node and time
\* budgets are kept as "is finite" flags: soft_nodes = hard_nodes = max_nodes,
\* soft_time derives from time[stm] only, hard_time also from movetime.
TMInit(l) ==
  [stop |-> FALSE,
   infinite |-> TMInfinite(l),
   max_depth |-> Min(IF "depth" \in l.kinds THEN l.depth ELSE 65535, MAX_PLY),
   nodes_limited |-> "nodes" \in l.kinds,
   soft_limited |-> "wtime" \in l.kinds,
   hard_limited |-> "wtime" \in l.kinds \/ "movetime" \in l.kinds]

\* stop_search(): true when the stop flag is set; may be true when the node
\* count or the clock has passed a finite hard budget.
StopSearchMust == tm.stop
StopSearchMay == tm.stop \/ tm.nodes_limited \/ tm.hard_limited

\* stop_id(depth, nodes): the stop flag or the depth limit decide; a finite
\* soft node or time budget may.
StopIdMust(d) == tm.stop \/ d >= tm.max_depth
StopIdMay(d) == StopIdMust(d) \/ tm.nodes_limited \/ tm.soft_limited

\* ---------------------------------------------------- searcher.rs: state
\* Searcher::default() and the ThreadCtx built by worker_thread_loop
SearcherInit ==
  /\ num_searching = 0
  /\ tm = TMDefault
  /\ uLimits = Lim({}, 0, None)
  /\ uNum = 0
  /\ root_moves = <<>>
  /\ abort_now = FALSE
  /\ root_pv = <<>>
  /\ ss0pv = <<>>
  /\ singularAt = {}
  /\ depth = 1
  /\ last = FALSE
  /\ stack = <<>>
  /\ searchCount = 0
  /\ goLimits = Lim({}, 0, None)
  /\ wLimits = Lim({}, 0, None)
  /\ stopIds = {}
  /\ wId = 0
  /\ printCount = 0
  /\ bestmove = 0
  /\ completed = FALSE
  /\ latchedPv = <<>>
  /\ d1Done = {}
  /\ ttStored = FALSE
  /\ ttStoreAfterAbort = FALSE

ghostVars == <<wLimits, completed, latchedPv, d1Done, ttStored,
               ttStoreAfterAbort>>
ctxVars == <<root_moves, abort_now, root_pv, ss0pv, singularAt, depth, last, stack>>
chanCore == <<msg, futex, num_receivers, sGen, sFutex, rGen, rFutex, rRet,
              sent, handled, ttVars>>

\* ------------------------------------------------ engine.rs: UCI thread
\* Engine::go: `go <limits>` read from stdin.
UciGo ==
  /\ upc = "idle"
  /\ searchCount < MaxSearches
  /\ upc' = "go_check"
  /\ UNCHANGED <<chanCore, sMsg, wpc, num_searching, tm, uLimits, uNum,
                 ctxVars, searchCount, goLimits, stopIds, wId, printCount,
                 bestmove, ghostVars>>

\* Searcher::is_running()
IsRunning(n) == n # 0

\* Engine::go: if self.searcher.is_running() { "already searching" } else
\* Searcher::search is called with the limits of the command.
UciGoCheck(limitChoices) ==
  /\ upc = "go_check"
  /\ IF IsRunning(num_searching)
     THEN upc' = "idle" /\ uLimits' = uLimits
     ELSE upc' = "search_assert" /\ \E l \in limitChoices : uLimits' = l
  /\ UNCHANGED <<chanCore, sMsg, wpc, num_searching, tm, uNum, ctxVars,
                 searchCount, goLimits, stopIds, wId, printCount, bestmove,
                 ghostVars>>

\* Searcher::search: assert!(!self.is_running())
UciSearchAssert ==
  /\ upc = "search_assert"
  /\ upc' = IF IsRunning(num_searching) THEN "panicked" ELSE "search_store"
  /\ UNCHANGED <<chanCore, sMsg, wpc, num_searching, tm, uLimits, uNum,
                 ctxVars, searchCount, goLimits, stopIds, wId, printCount,
                 bestmove, ghostVars>>

\* A Searcher::search that stores no pseudo-searcher.
PseudoSearcher_m == 1 - 1

\* Searcher::search: the "pseudo"-searcher stored in num_searching
PseudoSearcher == 1

\* Searcher::search: nodes.store(0); num_searching.store(1, Relaxed)
UciSearchStore ==
  /\ upc = "search_store"
  /\ num_searching' = PseudoSearcher
  /\ searchCount' = searchCount + 1
  /\ goLimits' = uLimits
  /\ upc' = "search_init"
  /\ UNCHANGED <<chanCore, sMsg, wpc, tm, uLimits, uNum, ctxVars, stopIds,
                 wId, printCount, bestmove, ghostVars>>

\* Searcher::search: time_manager.init(stm, &limits); root_moves is the
\* first SearchMoves limit; send(ThreadCmd::Search(params)) is entered.
UciSearchInit ==
  /\ upc = "search_init"
  /\ tm' = TMInit(uLimits)
  /\ sMsg' = Cmd("Search", uLimits.searchmoves)
  /\ uLimits' = Lim({}, 0, None)
  /\ upc' = "send_load"
  /\ UNCHANGED <<chanCore, wpc, num_searching, uNum, ctxVars,
                 searchCount, goLimits, stopIds, wId, printCount, bestmove,
                 ghostVars>>

\* send() returns into Searcher::search (back to the UCI loop) or into
\* Searcher::quit (which joins the worker).
UciSendRet ==
  /\ upc = "send_ret"
  /\ upc' = IF sMsg.cmd = "Quit" THEN "join" ELSE "idle"
  /\ UNCHANGED <<chanCore, sMsg, wpc, num_searching, tm, uLimits, uNum,
                 ctxVars, searchCount, goLimits, stopIds, wId, printCount,
                 bestmove, ghostVars>>

\* Engine::stop: `stop` read from stdin; if self.searcher.is_running()
UciStop ==
  /\ upc = "idle"
  /\ upc' = IF IsRunning(num_searching) THEN "stop_assert" ELSE "idle"
  /\ UNCHANGED <<chanCore, sMsg, wpc, num_searching, tm, uLimits, uNum,
                 ctxVars, searchCount, goLimits, stopIds, wId, printCount,
                 bestmove, ghostVars>>

\* Searcher::stop: assert!(self.is_running())
UciStopAssert ==
  /\ upc = "stop_assert"
  /\ upc' = IF IsRunning(num_searching) THEN "stop_set" ELSE "panicked"
  /\ UNCHANGED <<chanCore, sMsg, wpc, num_searching, tm, uLimits, uNum,
                 ctxVars, searchCount, goLimits, stopIds, wId, printCount,
                 bestmove, ghostVars>>

\* TimeManager::set_stop_flag(true)
SetStopFlag(t) == [t EXCEPT !.stop = TRUE]

\* Searcher::stop: set_stop_flag(true); Engine::stop then calls wait()
UciStopSet ==
  /\ upc = "stop_set"
  /\ tm' = SetStopFlag(tm)
  /\ stopIds' = stopIds \cup {searchCount}
  /\ upc' = "wait_load"
  /\ UNCHANGED <<chanCore, sMsg, wpc, num_searching, uLimits, uNum, ctxVars,
                 searchCount, goLimits, wId, printCount, bestmove, ghostVars>>

\* Engine::wait: `wait` read from stdin; if !self.searcher.is_running()
UciWait ==
  /\ upc = "idle"
  /\ upc' = IF IsRunning(num_searching) THEN "wait_load" ELSE "idle"
  /\ UNCHANGED <<chanCore, sMsg, wpc, num_searching, tm, uLimits, uNum,
                 ctxVars, searchCount, goLimits, stopIds, wId, printCount,
                 bestmove, ghostVars>>

\* Searcher::wait: let mut num_searching = num_searching.load(Relaxed)
\* (line 162) and the first test of the while loop; with 0 the loop is
\* never entered and wait() returns without having waited.
UciWaitLoad ==
  /\ upc = "wait_load"
  /\ uNum' = num_searching
  /\ upc' = IF num_searching # 0 THEN "wait_wait" ELSE "wait_skip"
  /\ UNCHANGED <<chanCore, sMsg, wpc, num_searching, tm, uLimits, ctxVars,
                 searchCount, goLimits, stopIds, wId, printCount, bestmove,
                 ghostVars>>

\* Searcher::wait: num_searching = num_searching.load(Relaxed) inside the
\* loop (line 165) and the next test of the loop
UciWaitReload ==
  /\ upc = "wait_reload"
  /\ uNum' = num_searching
  /\ upc' = IF num_searching # 0 THEN "wait_wait" ELSE "wait_ret"
  /\ UNCHANGED <<chanCore, sMsg, wpc, num_searching, tm, uLimits, ctxVars,
                 searchCount, goLimits, stopIds, wId, printCount, bestmove,
                 ghostVars>>

\* Searcher::wait: atomic_wait::wait(&num_searching, num_searching)
UciWaitWait ==
  /\ upc = "wait_wait"
  /\ upc' = IF num_searching = uNum THEN "wait_parked" ELSE "wait_reload"
  /\ UNCHANGED <<chanCore, sMsg, wpc, num_searching, tm, uLimits, uNum,
                 ctxVars, searchCount, goLimits, stopIds, wId, printCount,
                 bestmove, ghostVars>>

\* The futex wait on num_searching returns without a wake.
UciSpuriousWake ==
  /\ upc = "wait_parked"
  /\ upc' = "wait_reload"
  /\ UNCHANGED <<chanCore, sMsg, wpc, num_searching, tm, uLimits, uNum,
                 ctxVars, searchCount, goLimits, stopIds, wId, printCount,
                 bestmove, ghostVars>>

\* Searcher::wait returns to Engine::stop / Engine::wait, which print and
\* return to the UCI loop.
UciWaitRet ==
  /\ upc \in {"wait_ret", "wait_skip"}
  /\ upc' = "idle"
  /\ uNum' = 0
  /\ UNCHANGED <<chanCore, sMsg, wpc, num_searching, tm, uLimits,
                 ctxVars, searchCount, goLimits, stopIds, wId, printCount,
                 bestmove, ghostVars>>

\* Engine::quit -> Searcher::quit: set_stop_flag(true); send(Quit) is entered
UciQuit ==
  /\ upc = "idle"
  /\ tm' = SetStopFlag(tm)
  /\ stopIds' = stopIds \cup {searchCount}
  /\ sMsg' = Cmd("Quit", None)
  /\ upc' = "send_load"
  /\ UNCHANGED <<chanCore, wpc, num_searching, uLimits, uNum, ctxVars,
                 searchCount, goLimits, wId, printCount, bestmove, ghostVars>>

\* Searcher::quit: self.search_thread.take().unwrap().join()
UciJoin ==
  /\ upc = "join"
  /\ wpc[1] = "w_done"
  /\ upc' = "exit"
  /\ UNCHANGED <<chanCore, sMsg, wpc, num_searching, tm, uLimits, uNum,
                 ctxVars, searchCount, goLimits, stopIds, wId, printCount,
                 bestmove, ghostVars>>

\* ------------------------------------------- searcher.rs: worker thread
uciCore == <<tm, uLimits, uNum, searchCount, goLimits, stopIds>>

\* worker_thread_loop: ThreadCmd::Search: num_searching.fetch_add(1),
\* root_moves = params.root_moves.unwrap_or_else(gen_all_moves_to),
\* search_stack.fill(Default), abort_now = false; id_loop starts at depth 1.
WorkerSearch ==
  /\ wpc[1] = "recv_ret"
  /\ rRet[1].cmd = "Search"
  /\ num_searching' = num_searching + 1
  /\ root_moves' = IF rRet[1].root_moves.some THEN rRet[1].root_moves.moves
                   ELSE RootLegal
  /\ ss0pv' = <<>>
  /\ singularAt' = {}
  /\ abort_now' = FALSE
  /\ depth' = 1
  /\ wId' = wId + 1
  /\ completed' = FALSE
  /\ latchedPv' = <<>>
  /\ d1Done' = {}
  /\ ttStored' = FALSE
  /\ ttStoreAfterAbort' = FALSE
  /\ wLimits' = goLimits
  /\ bestmove' = 0
  /\ wpc' = [wpc EXCEPT ![1] = "id_iter"]
  /\ UNCHANGED <<chanCore, sMsg, upc, uciCore, root_pv, last, stack,
                 printCount>>

\* worker_thread_loop: ThreadCmd::Quit => return
WorkerQuit ==
  /\ wpc[1] = "recv_ret"
  /\ rRet[1].cmd = "Quit"
  /\ wpc' = [wpc EXCEPT ![1] = "w_done"]
  /\ UNCHANGED <<chanCore, sMsg, upc, num_searching, uciCore, ctxVars, wId,
                 printCount, bestmove, ghostVars>>

\* ------------------------------------------------ search.rs: search()
\* A frame of search::<Node>(pos, depth, ply, ..): its parameters, its
\* position in the body, and the locals the control flow reads
\* (singular_search, moves_seen, the moves the picker has yielded, the move
\* being searched, extension, lmr).  Scores, evaluations, history and SEE
\* values are not kept: a branch on them is a choice.
NewFrame(node, d, ply) ==
  [node |-> node, depth |-> d, ply |-> ply,
   pc |-> IF node = "Root" THEN "loop" ELSE "entry",
   ss |-> FALSE, seen |-> 0, picked |-> {}, mv |-> 0, ext |-> 0, lmr |-> 0]

Top == stack[Len(stack)]
SetTop(f) == [stack EXCEPT ![Len(stack)] = f]
Pop == SubSeq(stack, 1, Len(stack) - 1)

\* NodeType::Next
NextNode(node) == IF node = "NonPV" THEN "NonPV" ELSE "PV"

\* Outcomes for abort_now of a whole subtree search (a call resolved in one
\* step, or qsearch): it returns at once when abort_now or the stop flag is
\* set, and may abort on a finite node or time budget.
SubtreeAbort ==
  IF abort_now \/ StopSearchMust THEN {TRUE}
  ELSE IF StopSearchMay THEN {FALSE, TRUE} ELSE {FALSE}

\* A call search::<node>(d, ply) by the top frame, which resumes as `caller`.
Call(lim, caller, node, d, ply) ==
  IF Len(stack) < lim
  THEN /\ stack' = Append(SetTop(caller), NewFrame(node, d, ply))
       /\ abort_now' = abort_now
  ELSE /\ stack' = SetTop(caller)
       /\ abort_now' \in SubtreeAbort

\* The top frame returns to its caller; the root frame returns to id_loop.
Return ==
  /\ stack' = Pop
  /\ wpc' = IF Len(stack) = 1 THEN [wpc EXCEPT ![1] = "id_after"] ELSE wpc

InSearch == wpc[1] = "searching" /\ stack # <<>>

searchFixed == <<chanCore, sMsg, upc, num_searching, uciCore, root_moves,
                 root_pv, depth, last, wId, wLimits, printCount, bestmove,
                 completed, latchedPv>>

\* search(): from the entry of a non-root node to its first call or return:
\* the abort check (lines 65-68), terminal state, repetition, qsearch at
\* depth <= 0, TT cutoff, RFP, and the null-move search.
SearchEnter(lim) ==
  /\ InSearch
  /\ Top.pc = "entry"
  /\ LET f == [Top EXCEPT !.ss = Top.ply \in singularAt] IN
     \/ \* abort_now || stop_search(): abort_now = true; return ZERO
        /\ abort_now \/ StopSearchMay
        /\ abort_now' = TRUE
        /\ Return
     \/ \* terminal, repetition, TT cutoff, RFP, or qsearch returning
        /\ ~abort_now /\ ~StopSearchMust
        /\ abort_now' = abort_now
        /\ Return
     \/ \* NMP: !PV, !in_check, !singular_search, depth >= nmp_depth
        /\ ~abort_now /\ ~StopSearchMust
        /\ f.node = "NonPV" /\ ~f.ss /\ f.depth >= 3
        /\ Call(lim, [f EXCEPT !.pc = "after_null"], "NonPV",
                f.depth - (3 + f.depth \div 3), f.ply + 1)
        /\ UNCHANGED wpc
     \/ \* the move loop
        /\ ~abort_now /\ ~StopSearchMust
        /\ f.depth >= 1
        /\ stack' = SetTop([f EXCEPT !.pc = "loop"])
        /\ UNCHANGED <<abort_now, wpc>>
  /\ UNCHANGED <<searchFixed, ss0pv, singularAt, d1Done, ttStored,
                 ttStoreAfterAbort>>

\* search(): `if thread.abort_now { return Score::ZERO; }` after the
\* null-move search
AbortAfterNull(abort) == abort

\* search(): after the null-move search (lines 156-165)
SearchAfterNull(lim) ==
  /\ InSearch
  /\ Top.pc = "after_null"
  /\ \/ /\ AbortAfterNull(abort_now)
        /\ Return
     \/ \* score >= beta: return beta
        /\ ~AbortAfterNull(abort_now)
        /\ Return
     \/ /\ ~AbortAfterNull(abort_now)
        /\ stack' = SetTop([Top EXCEPT !.pc = "loop"])
        /\ UNCHANGED wpc
  /\ UNCHANGED <<searchFixed, abort_now, ss0pv, singularAt, d1Done, ttStored,
                 ttStoreAfterAbort>>

\* search(): make_move and the first search of the child (PVS, lines 274-284)
CallChild(lim, f) ==
  LET new_depth == f.depth + f.ext - 1 IN
  IF f.seen = 0
  THEN Call(lim, [f EXCEPT !.pc = "post_child"], NextNode(f.node), new_depth,
            f.ply + 1)
  ELSE \E l \in 0..MaxLmr :
         Call(lim, [f EXCEPT !.pc = "after_lmr", !.lmr = l], "NonPV",
              Min(Max(new_depth - l, 1), new_depth), f.ply + 1)

\* Moves the picker can yield next: the root tries the legal moves in any
\* order (TT move and history decide); below the root the moves are named
\* in the order they are yielded.
NextMoves(f) ==
  LET rest == (1..NumMoves) \ f.picked IN
  IF f.node = "Root" THEN rest
  ELSE IF rest = {} THEN {} ELSE {CHOOSE m \in rest : \A o \in rest : m <= o}

\* search(): one pass of `while let Some(mv) = move_picker.next(..)` up to
\* the first call made for the move (lines 178-284).
SearchPick(lim) ==
  /\ InSearch
  /\ Top.pc = "loop"
  /\ LET f == Top IN
     \/ \* the picker is exhausted, or skip_quiets() dropped the rest
        /\ NextMoves(f) = {} \/ (f.node # "Root" /\ f.seen >= 1)
        /\ stack' = SetTop([f EXCEPT !.pc = "store"])
        /\ UNCHANGED <<abort_now, singularAt>>
     \/ \E mv \in NextMoves(f) :
          LET g == [f EXCEPT !.mv = mv, !.picked = f.picked \cup {mv}, !.ext = 0,
                             !.lmr = 0] IN
          \/ \* continue: the excluded singular move, or a pruned move
             /\ (f.ss /\ f.picked = {}) \/ (f.node # "Root" /\ f.seen >= 1)
             /\ stack' = SetTop(g)
             /\ UNCHANGED <<abort_now, singularAt>>
          \/ \* singular search on the TT move (lines 246-258)
             /\ f.node # "Root" /\ ~f.ss /\ f.depth >= 8 /\ f.picked = {}
             /\ singularAt' = singularAt \cup {f.ply}
             /\ Call(lim, [g EXCEPT !.pc = "after_singular"], "NonPV",
                     (f.depth - 1) \div 2, f.ply)
          \/ /\ ~(f.ss /\ f.picked = {})
             /\ CallChild(lim, g)
             /\ UNCHANGED singularAt
  /\ UNCHANGED <<searchFixed, wpc, ss0pv, d1Done, ttStored, ttStoreAfterAbort>>

\* search(): after the singular search (lines 259-272); there is no abort
\* check here, the move is searched next or s_beta is returned.
SearchAfterSingular(lim) ==
  /\ InSearch
  /\ Top.pc = "after_singular"
  /\ singularAt' = singularAt \ {Top.ply}
  /\ \/ \* s_beta >= beta: return s_beta
        /\ abort_now' = abort_now
        /\ Return
     \/ \E e \in (IF Top.node = "NonPV" THEN {-1, 0, 1, 2} ELSE {-1, 0, 1}) :
          /\ CallChild(lim, [Top EXCEPT !.ext = e])
          /\ UNCHANGED wpc
  /\ UNCHANGED <<searchFixed, ss0pv, d1Done, ttStored, ttStoreAfterAbort>>

\* search(): the re-searches of PVS (lines 286-291)
SearchResearch(lim) ==
  /\ InSearch
  /\ LET f == Top
         new_depth == f.depth + f.ext - 1 IN
     \/ \* lmr > 0 && score > alpha
        /\ f.pc = "after_lmr" /\ f.lmr > 0
        /\ Call(lim, [f EXCEPT !.pc = "after_zw"], "NonPV", new_depth, f.ply + 1)
     \/ \* Node::PV && score > alpha
        /\ f.pc \in {"after_lmr", "after_zw"} /\ f.node # "NonPV"
        /\ Call(lim, [f EXCEPT !.pc = "post_child"], "PV", new_depth, f.ply + 1)
  /\ UNCHANGED <<searchFixed, wpc, ss0pv, singularAt, d1Done, ttStored,
                 ttStoreAfterAbort>>

\* A search() without the abort check after the child searches.
AbortAfterChild_m(abort) == FALSE

\* search(): `if thread.abort_now { return Score::ZERO; }` after the child
\* searches (line 301)
AbortAfterChild(abort) == abort

\* update_pv(thread, ply, mv): only the head of search_stack[0].pv is kept
update_pv(pv, ply, mv) == IF ply = 0 THEN <<mv>> ELSE pv

\* search(): after the child searches of a move (lines 294-335)
SearchPostChild(lim) ==
  /\ InSearch
  /\ Top.pc \in {"post_child", "after_lmr", "after_zw"}
  /\ LET f == [Top EXCEPT !.seen = Top.seen + 1] IN
     \/ /\ AbortAfterChild(abort_now)
        /\ Return
        /\ UNCHANGED <<ss0pv, d1Done>>
     \/ /\ ~AbortAfterChild(abort_now)
        /\ d1Done' = IF f.node = "Root" /\ depth = 1 THEN d1Done \cup {f.mv}
                     ELSE d1Done
        /\ \E raise \in BOOLEAN, cut \in BOOLEAN :
             \* at the root the window is (-INFINITE, INFINITE): the first
             \* move raises alpha and no move reaches beta
             /\ cut => raise
             /\ f.node = "Root" => ~cut /\ (f.seen = 1 => raise)
             /\ ss0pv' = IF (f.node = "Root" /\ f.seen = 1)
                            \/ (raise /\ f.node # "NonPV")
                         THEN update_pv(ss0pv, f.ply, f.mv) ELSE ss0pv
             /\ stack' = SetTop([f EXCEPT !.pc = IF cut THEN "store" ELSE "loop",
                                          !.mv = 0, !.ext = 0, !.lmr = 0])
        /\ UNCHANGED wpc
  /\ UNCHANGED <<searchFixed, abort_now, singularAt, ttStored, ttStoreAfterAbort>>

\* search(): `if !singular_search { ttable.store(..) }`, update_corr and
\* return best_score (lines 338-365)
SearchStore(lim) ==
  /\ InSearch
  /\ Top.pc = "store"
  /\ ttStored' = (ttStored \/ ~Top.ss)
  /\ ttStoreAfterAbort' = (ttStoreAfterAbort \/ (~Top.ss /\ abort_now))
  /\ Return
  /\ UNCHANGED <<searchFixed, abort_now, ss0pv, singularAt, d1Done>>

\* ------------------------------------------------ searcher.rs: id_loop
idFixed == <<chanCore, sMsg, uciCore, root_moves, singularAt, wId, wLimits,
             d1Done, ttStored, ttStoreAfterAbort>>

\* id_loop: search::<Root>(pos, depth, 0, -INFINITE, INFINITE, thread)
IdIter ==
  /\ wpc[1] = "id_iter"
  /\ stack' = <<NewFrame("Root", depth, 0)>>
  /\ wpc' = [wpc EXCEPT ![1] = "searching"]
  /\ UNCHANGED <<idFixed, upc, num_searching, abort_now, root_pv, ss0pv, depth,
                 last, printCount, bestmove, completed, latchedPv>>

\* An id_loop that latches the PV of an aborted iteration.
BreakOnAbort_m(d, abort) == FALSE

\* id_loop: `if depth > 1 && thread.abort_now { break; }`
BreakOnAbort(d, abort) == d > 1 /\ abort

\* id_loop: after search() returned (lines 221-243)
IdAfter ==
  /\ wpc[1] = "id_after"
  /\ \/ /\ BreakOnAbort(depth, abort_now)
        /\ wpc' = [wpc EXCEPT ![1] = "id_tail"]
        /\ UNCHANGED <<root_pv, depth, completed, latchedPv>>
     \/ /\ ~BreakOnAbort(depth, abort_now)
        /\ root_pv' = ss0pv
        /\ completed' = (completed \/ ~abort_now)
        /\ latchedPv' = IF abort_now THEN latchedPv ELSE ss0pv
        /\ \/ /\ depth >= MAX_PLY \/ StopIdMay(depth)
              /\ wpc' = [wpc EXCEPT ![1] = "id_tail"]
              /\ depth' = depth
           \/ /\ ~(depth >= MAX_PLY \/ StopIdMust(depth))
              /\ depth' = depth + 1
              /\ wpc' = [wpc EXCEPT ![1] = "id_iter"]
  /\ UNCHANGED <<idFixed, upc, num_searching, abort_now, ss0pv, last, stack,
                 printCount, bestmove>>

\* An id_loop that does not wait for the stop flag.
MustWaitForStop_m(t) == FALSE

\* id_loop: `if infinite() { while !stop_flag() { sleep } }`
MustWaitForStop(t) == t.infinite /\ ~t.stop

\* id_loop: the wait for the stop flag of an infinite search (lines 246-251)
IdTail ==
  /\ wpc[1] = "id_tail"
  /\ ~MustWaitForStop(tm)
  /\ wpc' = [wpc EXCEPT ![1] = "id_dec"]
  /\ UNCHANGED <<idFixed, upc, num_searching, abort_now, root_pv, ss0pv, depth,
                 last, stack, printCount, bestmove, completed, latchedPv>>

\* id_loop: let last = num_searching.fetch_sub(1, Relaxed) == 2
IdDec ==
  /\ wpc[1] = "id_dec"
  /\ last' = (num_searching = 2)
  /\ num_searching' = num_searching - 1
  /\ wpc' = [wpc EXCEPT ![1] = IF num_searching = 2 THEN "id_zero" ELSE "id_print"]
  /\ UNCHANGED <<idFixed, upc, abort_now, root_pv, ss0pv, depth, stack,
                 printCount, bestmove, completed, latchedPv>>

\* id_loop: if last { num_searching.store(0, Relaxed) }
IdZero ==
  /\ wpc[1] = "id_zero"
  /\ num_searching' = 0
  /\ wpc' = [wpc EXCEPT ![1] = "id_print"]
  /\ UNCHANGED <<idFixed, upc, abort_now, root_pv, ss0pv, depth, last, stack,
                 printCount, bestmove, completed, latchedPv>>

\* id_loop: *root_pv.first().or(root_moves.first()).unwrap(); the Option
\* is a sequence of at most one move
BestMove(pv, moves) ==
  IF pv # <<>> THEN <<pv[1]>> ELSE IF moves # <<>> THEN <<moves[1]>> ELSE <<>>

\* id_loop: best move selection and println!("bestmove ..") (lines 260-269).
\* unwrap() on None panics; the worker's catch_unwind then exits the process.
IdPrint ==
  /\ wpc[1] = "id_print"
  /\ LET bm == BestMove(root_pv, root_moves) IN
     IF bm = <<>>
     THEN /\ wpc' = [wpc EXCEPT ![1] = "w_exit"]
          /\ upc' = "killed"
          /\ UNCHANGED <<bestmove, printCount>>
     ELSE /\ bestmove' = bm[1]
          /\ printCount' = printCount + 1
          /\ wpc' = [wpc EXCEPT ![1] = IF last THEN "id_wake" ELSE "recv_load"]
          /\ upc' = upc
  /\ UNCHANGED <<idFixed, num_searching, abort_now, root_pv, ss0pv, depth,
                 last, stack, completed, latchedPv>>

\* id_loop: if last { wake_all(&num_searching) }; back to rx.recv
IdWake ==
  /\ wpc[1] = "id_wake"
  /\ upc' = IF upc = "wait_parked" THEN "wait_reload" ELSE upc
  /\ wpc' = [wpc EXCEPT ![1] = "recv_load"]
  /\ last' = FALSE
  /\ UNCHANGED <<idFixed, num_searching, abort_now, root_pv, ss0pv, depth,
                 stack, printCount, bestmove, completed, latchedPv>>

\* ------------------------------------------------------------ score.rs
\* i16::MAX
I16_MAX == 32767

\* Score::MIN_MATE ("Mate in 0"), Score::MAX_MATE, Score::INFINITE
MIN_MATE == I16_MAX - MAX_PLY
MAX_MATE == I16_MAX - 2 * MAX_PLY
INFINITE == MIN_MATE + 1

Abs(x) == IF x < 0 THEN -x ELSE x

\* Score::is_mate: (MAX_MATE.0..=MIN_MATE.0).contains(&self.0.abs())
is_mate(s) == MAX_MATE <= Abs(s) /\ Abs(s) <= MIN_MATE

\* An i16 as the 16 bits of its two's complement, and back.
ToU16(s) == (s + 2 * (I16_MAX + 1)) % (2 * (I16_MAX + 1))
ToI16(u) == IF u > I16_MAX THEN u - 2 * (I16_MAX + 1) ELSE u

\* Add / Sub of Score and i16: i16 arithmetic, wrapping on overflow.
WrapI16(x) == ToI16(ToU16(x))

\* ---------------------------------------------- transposition_table.rs
\* A u64 is kept as its four 16-bit lanes, lowest first.
RECURSIVE XorBits(_, _, _)
XorBits(a, b, n) ==
  IF n = 0 \/ a = b THEN 0
  ELSE IF a = 0 THEN b
  ELSE IF b = 0 THEN a
  ELSE ((a + b) % 2) + 2 * XorBits(a \div 2, b \div 2, n - 1)

\* a ^ b on u64
Xor64(a, b) == [i \in 1..4 |-> XorBits(a[i], b[i], 16)]

Zero64 == <<0, 0, 0, 0>>

\* enum TTFlag by discriminant: None = 0, Exact = 1, Lower = 2, Upper = 3
TTFlagNone == 0
TTFlagExact == 1
TTFlagLower == 2
TTFlagUpper == 3

\* Flags::new: (age << 3) | ((pv as u8) << 2) | tt_flag as u8
Flags_new(a, pv, tt_flag) == ((a * 8) % 256) + (IF pv THEN 4 ELSE 0) + tt_flag

\* Flags::pv, Flags::tt_flag
Flags_pv(f) == (f \div 4) % 2 # 0
Flags_tt_flag(f) == f % 4

\* struct TTData (repr(C)): eval, score, mv (Option<Move>, None is 0),
\* depth, flags
TTData(eval, score, mv, d, flags) ==
  [eval |-> eval, score |-> score, mv |-> mv, depth |-> d, flags |-> flags]

\* TTData::pack / TTData::unpack: transmute of the 8 bytes (little endian)
pack(d) == <<ToU16(d.eval), ToU16(d.score), d.mv, d.depth + 256 * d.flags>>
unpack(n) ==
  TTData(ToI16(n[1]), ToI16(n[2]), n[3], n[4] % 256, n[4] \div 256)

\* Option<TTData>
NoData == [some |-> FALSE, data |-> unpack(Zero64)]
SomeData(d) == [some |-> TRUE, data |-> d]

\* A score_to_tt that stores the root-relative score as it is.
score_to_tt_m(s, ply) == s

\* TTable::score_to_tt
score_to_tt(s, ply) ==
  IF ~is_mate(s) THEN s
  ELSE IF s < 0 THEN WrapI16(s - ply) ELSE WrapI16(s + ply)

\* TTable::tt_to_score
tt_to_score(s, ply) ==
  IF ~is_mate(s) THEN s
  ELSE IF s < 0 THEN WrapI16(s + ply) ELSE WrapI16(s - ply)

\* TTable::index: (hash as u128 * len as u128) >> 64, by long
\* multiplication over the lanes
index(hash, len) ==
  LET c1 == (hash[1] * len) \div 65536
      c2 == (hash[2] * len + c1) \div 65536
      c3 == (hash[3] * len + c2) \div 65536
  IN  (hash[4] * len + c3) \div 65536

\* TTEntry::empty, TTable::new
TTEntryEmpty == [key |-> Zero64, data |-> Zero64]
TTableNew(len) == [i \in 0..(len - 1) |-> TTEntryEmpty]

\* self.entries.len()
EntriesLen == Cardinality(DOMAIN entries)

\* A fetch that does not compare the key with the hash.
FetchMiss_m(key, hash, tt_flag) == tt_flag = TTFlagNone

\* TTable::fetch: `key != hash || data.flags.tt_flag() == TTFlag::None`
FetchMiss(key, hash, tt_flag) == key # hash \/ tt_flag = TTFlagNone

\* TTable::fetch, from the two words key_and_data has loaded
FetchRet(key, data, hash, ply) ==
  LET d == unpack(data)
  IN  IF FetchMiss(Xor64(key, data), hash, Flags_tt_flag(d.flags)) THEN NoData
      ELSE SomeData([d EXCEPT !.score = tt_to_score(d.score, ply)])

\* TTable::store: the TTData `new` built from the arguments and `old`
StoreNew(a, old, ag) ==
  TTData(a.eval, score_to_tt(a.score, a.ply),
         IF a.mv # 0 THEN a.mv ELSE IF old.some THEN old.data.mv ELSE 0,
         a.depth, Flags_new(ag, a.pv, a.tt_flag))

\* Arguments of a call of TTable::store or TTable::fetch
StoreArgs(hash, d, ply, eval, score, mv, tt_flag, pv) ==
  [op |-> "store", hash |-> hash, depth |-> d, ply |-> ply, eval |-> eval,
   score |-> score, mv |-> mv, tt_flag |-> tt_flag, pv |-> pv]
FetchArgs(hash, ply) ==
  [StoreArgs(hash, 0, ply, 0, 0, 0, TTFlagNone, FALSE) EXCEPT !.op = "fetch"]

NoLocals == [key |-> Zero64, data |-> Zero64, new |-> Zero64, old |-> NoData]
NoTags == [key |-> 0, data |-> 0, id |-> 0]
NoMate == [s |-> 0, p |-> 0, q |-> 0]

\* A table of `len` entries and `n` threads that are not inside a call.
TTableInit(len, n) ==
  /\ entries = TTableNew(len)
  /\ age = 0
  /\ tpc = [t \in 1..n |-> "idle"]
  /\ targ = [t \in 1..n |-> FetchArgs(Zero64, 0)]
  /\ tloc = [t \in 1..n |-> NoLocals]
  /\ tops = [t \in 1..n |-> 0]
  /\ rets = [t \in 1..n |-> <<>>]
  /\ entryTag = [i \in 0..(len - 1) |-> [key |-> 0, data |-> 0]]
  /\ ttag = [t \in 1..n |-> NoTags]
  /\ storeLog = <<>>

engineVars == <<chanVars, searcherVars, mate, posVars>>

\* A thread calls TTable::store or TTable::fetch with the arguments a;
\* both start with `self.index(hash)` and key_and_data().
TTCall(t, a) ==
  /\ tpc[t] = "idle"
  /\ tpc' = [tpc EXCEPT ![t] = "load_key"]
  /\ targ' = [targ EXCEPT ![t] = a]
  /\ tloc' = [tloc EXCEPT ![t] = NoLocals]
  /\ ttag' = [ttag EXCEPT ![t] = NoTags]
  /\ tops' = [tops EXCEPT ![t] = @ + 1]
  /\ UNCHANGED <<entries, age, rets, entryTag, storeLog, engineVars>>

\* TTEntry::key_and_data: let key = self.key.load(Relaxed)
TTLoadKey(t) ==
  /\ tpc[t] = "load_key"
  /\ LET i == index(targ[t].hash, EntriesLen)
     IN  /\ tloc' = [tloc EXCEPT ![t].key = entries[i].key]
         /\ ttag' = [ttag EXCEPT ![t].key = entryTag[i].key]
  /\ tpc' = [tpc EXCEPT ![t] = "load_data"]
  /\ UNCHANGED <<entries, age, targ, tops, rets, entryTag, storeLog,
                 engineVars>>

\* TTEntry::key_and_data: let data = self.data.load(Relaxed); fetch()
\* returns to its caller, or into store() as `old`.
TTLoadData(t) ==
  /\ tpc[t] = "load_data"
  /\ LET i == index(targ[t].hash, EntriesLen)
         d == entries[i].data
         r == FetchRet(tloc[t].key, d, targ[t].hash, targ[t].ply)
     IN  IF targ[t].op = "fetch"
         THEN /\ rets' = [rets EXCEPT ![t] = Append(@,
                            [hash |-> targ[t].hash, ply |-> targ[t].ply,
                             key |-> tloc[t].key, data |-> d, ret |-> r,
                             keyTag |-> ttag[t].key,
                             dataTag |-> entryTag[i].data])]
              /\ tpc' = [tpc EXCEPT ![t] = "idle"]
              /\ targ' = [targ EXCEPT ![t] = FetchArgs(Zero64, 0)]
              /\ tloc' = [tloc EXCEPT ![t] = NoLocals]
              /\ ttag' = [ttag EXCEPT ![t] = NoTags]
         ELSE /\ tloc' = [tloc EXCEPT ![t] =
                            [NoLocals EXCEPT
                               !.new = pack(StoreNew(targ[t], r, age))]]
              /\ tpc' = [tpc EXCEPT ![t] = "store_key"]
              /\ ttag' = [ttag EXCEPT ![t] = NoTags]
              /\ UNCHANGED <<rets, targ>>
  /\ UNCHANGED <<entries, age, tops, entryTag, storeLog, engineVars>>

\* TTEntry::store: self.key.store(hash ^ data, Relaxed)
TTStoreKey(t) ==
  /\ tpc[t] = "store_key"
  /\ LET i == index(targ[t].hash, EntriesLen)
         id == Len(storeLog) + 1
     IN  /\ entries' = [entries EXCEPT
                          ![i].key = Xor64(targ[t].hash, tloc[t].new)]
         /\ entryTag' = [entryTag EXCEPT ![i].key = id]
         /\ ttag' = [ttag EXCEPT ![t].id = id]
         /\ storeLog' = Append(storeLog,
                               [hash |-> targ[t].hash, data |-> tloc[t].new,
                                args |-> targ[t], slot |-> entries[i]])
  /\ tpc' = [tpc EXCEPT ![t] = "store_data"]
  /\ UNCHANGED <<age, targ, tloc, tops, rets, engineVars>>

\* TTEntry::store: self.data.store(data, Relaxed); store() returns
TTStoreData(t) ==
  /\ tpc[t] = "store_data"
  /\ LET i == index(targ[t].hash, EntriesLen)
     IN  /\ entries' = [entries EXCEPT ![i].data = tloc[t].new]
         /\ entryTag' = [entryTag EXCEPT ![i].data = ttag[t].id]
  /\ tpc' = [tpc EXCEPT ![t] = "idle"]
  /\ targ' = [targ EXCEPT ![t] = FetchArgs(Zero64, 0)]
  /\ tloc' = [tloc EXCEPT ![t] = NoLocals]
  /\ ttag' = [ttag EXCEPT ![t] = NoTags]
  /\ UNCHANGED <<age, tops, rets, storeLog, engineVars>>

\* ------------------------------------------------------- move_picker.rs
\* The moves of a node: 1..NumNoisy are the moves gen_noisy_moves emits,
\* the next NumQuiet those gen_quiet_moves emits, and one more move is
\* well formed but not legal. 0 is Option::None.
NumNoisy == 2
NumQuiet == 3
NoisyMoves == 1..NumNoisy
QuietMoves == (NumNoisy + 1)..(NumNoisy + NumQuiet)
PickMoves == 1..(NumNoisy + NumQuiet + 1)

\* enum Stage, in the order of its declaration (derive(PartialOrd))
Stages == <<"TTMove", "KillerMove", "GenNoisy", "YieldGoodNoisy",
            "GenQuiet", "YieldQuiet", "YieldBadNoisy">>
StageOrd(st) == CHOOSE i \in 1..Len(Stages) : Stages[i] = st

\* board.is_legal(mv); pos.cmp_see(mv, see_threshold)
is_legal(pos, mv) == mv \in NoisyMoves \cup QuietMoves
cmp_see_m(pos, mv) == TRUE
cmp_see(pos, mv) == pos.see[mv]

\* gen_noisy_moves / gen_quiet_moves with the filter of next(), scored
RECURSIVE GenScored(_, _, _, _)
GenScored(pos, lo, hi, excl) ==
  IF lo > hi THEN <<>>
  ELSE (IF lo \in excl THEN <<>> ELSE <<[mv |-> lo, sc |-> pos.score[lo]]>>)
       \o GenScored(pos, lo + 1, hi, excl)

\* A MovePicker::new that keeps a killer equal to the TT move.
MovePicker_new_m(tt_move, killer_move, skip_quiets, skip_bad_noisies) ==
  [moves |-> <<>>, bad_noisies |-> 0, index |-> 0, stage |-> "TTMove",
   skip_quiets |-> skip_quiets, tt_move |-> tt_move,
   killer_move |-> killer_move,
   skip_bad_noisies |-> skip_bad_noisies]

\* MovePicker::new
MovePicker_new(tt_move, killer_move, skip_quiets, skip_bad_noisies) ==
  [moves |-> <<>>, bad_noisies |-> 0, index |-> 0, stage |-> "TTMove",
   skip_quiets |-> skip_quiets, tt_move |-> tt_move,
   killer_move |-> IF killer_move # tt_move THEN killer_move ELSE 0,
   skip_bad_noisies |-> skip_bad_noisies]

\* A skip_quiets that only sets the flag.
skip_quiets_m(p) == [p EXCEPT !.skip_quiets = TRUE]

\* MovePicker::skip_quiets
skip_quiets(p) ==
  IF p.stage \in {"GenQuiet", "YieldQuiet"}
  THEN [p EXCEPT !.skip_quiets = TRUE, !.index = 0, !.stage = "YieldBadNoisy"]
  ELSE [p EXCEPT !.skip_quiets = TRUE]

\* MovePicker::no_more_quiets
no_more_quiets(p) == p.skip_quiets \/ StageOrd(p.stage) > StageOrd("YieldQuiet")

\* MovePicker::pick_best: the maximum of (i | score << 16) over the moves
\* from index on; its low 16 bits are the index picked (0-based).
pick_best(p) ==
  LET packed(i) == i + p.moves[i + 1].sc * 65536
      best == CHOOSE i \in p.index..(Len(p.moves) - 1) :
                \A j \in p.index..(Len(p.moves) - 1) : packed(j) <= packed(i)
  IN  packed(best) % 65536

\* ArrayVec::swap on 0-based indices
Swap(ms, i, j) == [ms EXCEPT ![i + 1] = ms[j + 1], ![j + 1] = ms[i + 1]]

\* MovePicker::next from the stage the picker is in: the picker after the
\* call, the move returned (0: None) and the stage that returned it.
RECURSIVE next(_, _)
next(p, pos) ==
  LET Ret(q, mv) == [p |-> q, mv |-> mv, stage |-> p.stage]
  IN
  CASE p.stage = "TTMove" ->
         LET q == [p EXCEPT !.stage = "GenNoisy"]
         IN  IF p.tt_move # 0 /\ is_legal(pos, p.tt_move)
             THEN Ret(q, p.tt_move) ELSE next(q, pos)
    [] p.stage = "GenNoisy" ->
         next([p EXCEPT !.moves = @ \o GenScored(pos, 1, NumNoisy, {p.tt_move}),
                        !.stage = "YieldGoodNoisy"], pos)
    [] p.stage = "YieldGoodNoisy" ->
         IF p.index = Len(p.moves)
         THEN next([p EXCEPT !.stage = "KillerMove"], pos)
         ELSE LET i == pick_best(p)
                  mv == p.moves[i + 1].mv
                  q == [p EXCEPT !.moves = Swap(@, p.index, i),
                                 !.index = @ + 1]
              IN  IF cmp_see(pos, mv) THEN Ret(q, mv)
                  ELSE next([q EXCEPT
                               !.moves = Swap(@, q.bad_noisies, q.index - 1),
                               !.bad_noisies = @ + 1], pos)
    [] p.stage = "KillerMove" ->
         LET q == [p EXCEPT !.stage = "GenQuiet"]
         IN  IF ~p.skip_quiets /\ p.killer_move # 0
                /\ is_legal(pos, p.killer_move)
             THEN Ret(q, p.killer_move) ELSE next(q, pos)
    [] p.stage = "GenQuiet" ->
         next([p EXCEPT
                 !.moves = IF p.skip_quiets THEN @
                           ELSE @ \o GenScored(pos, NumNoisy + 1,
                                               NumNoisy + NumQuiet,
                                               {p.tt_move, p.killer_move}),
                 !.stage = "YieldQuiet"], pos)
    [] p.stage = "YieldQuiet" ->
         IF p.index = Len(p.moves)
         THEN next([p EXCEPT !.index = 0, !.stage = "YieldBadNoisy"], pos)
         ELSE LET i == pick_best(p)
              IN  Ret([p EXCEPT !.moves = Swap(@, p.index, i),
                                !.index = @ + 1], p.moves[i + 1].mv)
    [] OTHER ->
         IF p.skip_bad_noisies \/ p.index >= p.bad_noisies
         THEN Ret(p, 0)
         ELSE Ret([p EXCEPT !.index = @ + 1], p.moves[p.index + 1].mv)
\* ===== icarus-board =====

\* ---------------------------------------------------------------------
\* icarus-common: squares, directions and lookup tables.
\* A Square is its index 0..63 (file = idx % 8, rank = idx / 8); a
\* Bitboard is the set of its squares.
\* ---------------------------------------------------------------------

Squares == 0 .. 63

White == 0

Black == 1

Pieces == {"Pawn", "Knight", "Bishop", "Rook", "Queen", "King"}

sq_file(sq) == sq % 8

sq_rank(sq) == sq \div 8

Square_new(f, r) == r * 8 + f

\* i8::signum
i8_signum(x) == IF x < 0 THEN -1 ELSE IF x > 0 THEN 1 ELSE 0

\* Color::signum
signum(color) == 1 - 2 * color

\* Rank::relative_to: the rank index r seen from `color`
relative_to(r, color) == IF color = White THEN r ELSE 7 - r

\* Bitboard::shift::<D>(steps) for the direction with deltas (df, dr)
shift(bb, df, dr, steps) ==
  { Square_new(sq_file(s) + df * steps, sq_rank(s) + dr * steps) :
      s \in { x \in bb : /\ sq_file(x) + df * steps \in 0 .. 7
                         /\ sq_rank(x) + dr * steps \in 0 .. 7 } }

file_bb(f) == { s \in Squares : sq_file(s) = f }

rank_bb(r) == { s \in Squares : sq_rank(s) = r }

main_diag_for(sq) ==
  { s \in Squares : sq_rank(s) - sq_file(s) = sq_rank(sq) - sq_file(sq) }

anti_diag_for(sq) ==
  { s \in Squares : sq_rank(s) + sq_file(s) = sq_rank(sq) + sq_file(sq) }

Xor(a, b) == (a \ b) \cup (b \ a)

rook_rays == [sq \in Squares |-> Xor(rank_bb(sq_rank(sq)), file_bb(sq_file(sq)))]

bishop_rays == [sq \in Squares |-> Xor(main_diag_for(sq), anti_diag_for(sq))]

knight_moves ==
  [sq \in Squares |->
    { t \in Squares :
        \/ /\ Abs(sq_file(t) - sq_file(sq)) = 1
           /\ Abs(sq_rank(t) - sq_rank(sq)) = 2
        \/ /\ Abs(sq_file(t) - sq_file(sq)) = 2
           /\ Abs(sq_rank(t) - sq_rank(sq)) = 1 }]

king_moves ==
  [sq \in Squares |->
    { t \in Squares : /\ t # sq
                      /\ Abs(sq_file(t) - sq_file(sq)) <= 1
                      /\ Abs(sq_rank(t) - sq_rank(sq)) <= 1 }]

pawn_attacks ==
  [sq \in Squares |->
    [color \in {White, Black} |->
      shift({sq}, -1, signum(color), 1) \cup shift({sq}, 1, signum(color), 1)]]

pawn_pushes(sq, color, blockers) ==
  LET one == shift({sq}, 0, 1, signum(color)) \ blockers
  IN  IF sq_rank(sq) = relative_to(1, color)
        THEN one \cup (shift(one, 0, 1, signum(color)) \ blockers)
        ELSE one

between_inclusive ==
  [a \in Squares |-> [b \in Squares |->
    LET df == sq_file(b) - sq_file(a)
        dr == sq_rank(b) - sq_rank(a)
        n  == IF Abs(df) > Abs(dr) THEN Abs(df) ELSE Abs(dr)
    IN  IF df # 0 /\ dr # 0 /\ Abs(df) # Abs(dr)
          THEN {a, b}
          ELSE { Square_new(sq_file(a) + i8_signum(df) * k, sq_rank(a) + i8_signum(dr) * k) :
                   k \in 0 .. n }]]

between == [a \in Squares |-> [b \in Squares |-> between_inclusive[a][b] \ {a, b}]]

line ==
  [a \in Squares |-> [b \in Squares |->
    LET df == sq_file(b) - sq_file(a)
        dr == sq_rank(b) - sq_rank(a)
    IN  (IF df = 0 THEN file_bb(sq_file(a)) ELSE {})
        \cup (IF dr = 0 THEN rank_bb(sq_rank(a)) ELSE {})
        \cup (IF df = dr THEN main_diag_for(a) ELSE {})
        \cup (IF df = -dr THEN anti_diag_for(a) ELSE {})]]

\* attack_generators: the squares a slider on sq reaches, walking each ray
\* up to and including the first blocker
rook_moves(sq, blockers) ==
  { t \in rook_rays[sq] : between[sq][t] \cap blockers = {} }

bishop_moves(sq, blockers) ==
  { t \in bishop_rays[sq] : between[sq][t] \cap blockers = {} }

\* ---------------------------------------------------------------------
\* icarus-board: the Board value and its primitive updates.
\* A Zobrist key is a term; a hash is the set of the terms XORed into it
\* (the keys are taken to be linearly independent 64-bit values).
\* ---------------------------------------------------------------------

NoPiece == "None"

NoFile == 8

NoEp == [file |-> NoFile, left |-> FALSE, right |-> FALSE]

CastlingDirections == <<"Long", "Short">>

\* CastlingDirection::king_dst / rook_dst
king_dst(dir) == IF dir = "Long" THEN 2 ELSE 6

rook_dst(dir) == IF dir = "Long" THEN 3 ELSE 5

ZobristPiece(sq, piece, color) == <<"piece", sq, piece, color>>

ZobristCastles(f, color) == <<"castles", f, "", color>>

ZobristEnPassant(f) == <<"en_passant", f, "", 0>>

ZobristBlackToMove == <<"black_to_move", 0, "", 0>>

\* EnPassantFile::new / attacker_bb
EnPassantFile_new(f, left, right) == [file |-> f, left |-> left, right |-> right]

attacker_bb(ep, stm) ==
  LET ep_sq == Square_new(ep.file, relative_to(4, stm))
  IN  ((IF ep.left THEN {ep_sq - 1} ELSE {})
       \cup (IF ep.right THEN {ep_sq + 1} ELSE {})) \cap Squares

occupied(b) == b.colors[White] \cup b.colors[Black]

colored_pieces(b, piece, color) == b.pieces[piece] \cap b.colors[color]

king(b, color) == CHOOSE s \in colored_pieces(b, "King", color) : TRUE

orth_sliders(b, color) == b.colors[color] \cap (b.pieces["Rook"] \cup b.pieces["Queen"])

diag_sliders(b, color) == b.colors[color] \cap (b.pieces["Bishop"] \cup b.pieces["Queen"])

toggle_square(b, sq, color, piece) ==
  LET key == {ZobristPiece(sq, piece, color)}
  IN  [b EXCEPT
        !.pieces[piece] = Xor(@, {sq}),
        !.colors[color] = Xor(@, {sq}),
        !.hash = Xor(@, key),
        !.pawn_hash = IF piece = "Pawn" THEN Xor(@, key) ELSE @,
        !.minor_hash = IF piece \in {"Knight", "Bishop", "King"} THEN Xor(@, key) ELSE @,
        !.major_hash = IF piece \in {"Rook", "Queen"} THEN Xor(@, key) ELSE @,
        !.nonpawn_hash[color] = IF piece # "Pawn" THEN Xor(@, key) ELSE @]

\* set_en_passant that leaves the old file's term in the hash
set_en_passant_m(b, f) ==
  [b EXCEPT !.en_passant = f,
            !.hash = IF f # NoEp THEN Xor(@, {ZobristEnPassant(f.file)}) ELSE @]

set_en_passant(b, f) ==
  LET h1 == IF b.en_passant # NoEp
              THEN Xor(b.hash, {ZobristEnPassant(b.en_passant.file)})
              ELSE b.hash
      h2 == IF f # NoEp THEN Xor(h1, {ZobristEnPassant(f.file)}) ELSE h1
  IN  [b EXCEPT !.en_passant = f, !.hash = h2]

set_castles(b, color, dir, f) ==
  LET old == b.castling_rights[color][dir]
      h1 == IF old # NoFile THEN Xor(b.hash, {ZobristCastles(old, color)}) ELSE b.hash
      h2 == IF f # NoFile THEN Xor(h1, {ZobristCastles(f, color)}) ELSE h1
  IN  [b EXCEPT !.castling_rights[color][dir] = f, !.hash = h2]

\* set_castles(color, dir, None) for each direction whose rook file is f
drop_castles_on(b, color, f) ==
  LET b1 == IF b.castling_rights[color]["Long"] = f
              THEN set_castles(b, color, "Long", NoFile) ELSE b
  IN  IF b1.castling_rights[color]["Short"] = f
        THEN set_castles(b1, color, "Short", NoFile) ELSE b1

calc_threats(b) ==
  LET stm == b.stm
      our_king == king(b, stm)
      blockers == occupied(b)
      push_dir == signum(stm)
      their_pawns == colored_pieces(b, "Pawn", 1 - stm)
      their_knights == colored_pieces(b, "Knight", 1 - stm)
      their_orth == orth_sliders(b, 1 - stm)
      their_diag == diag_sliders(b, 1 - stm)
      seen == Xor(blockers, {our_king})
      attacked ==
        shift(their_pawns, -1, -1, push_dir) \cup shift(their_pawns, 1, -1, push_dir)
          \cup king_moves[king(b, 1 - stm)]
          \cup UNION { knight_moves[k] : k \in their_knights }
          \cup UNION { rook_moves(o, seen) : o \in their_orth }
          \cup UNION { bishop_moves(d, seen) : d \in their_diag }
      checkers ==
        { k \in their_knights : our_king \in knight_moves[k] }
          \cup { o \in their_orth : our_king \in rook_moves(o, seen) }
          \cup { d \in their_diag : our_king \in bishop_moves(d, seen) }
          \cup (pawn_attacks[our_king][stm] \cap their_pawns)
      pinned ==
        UNION { between[o][our_king] \cap blockers :
                  o \in { x \in rook_rays[our_king] \cap their_orth :
                            Cardinality(between[x][our_king] \cap blockers) = 1 } }
          \cup UNION { between[d][our_king] \cap blockers :
                  d \in { x \in bishop_rays[our_king] \cap their_diag :
                            Cardinality(between[x][our_king] \cap blockers) = 1 } }
  IN  [b EXCEPT !.checkers = checkers, !.pinned = pinned, !.attacked = attacked]

\* calc_ep_file that takes every pawn beside the pushed one as an attacker
calc_ep_file_m(b, f) ==
  LET stm == b.stm
      victim == Square_new(f, relative_to(4, stm))
      attacker_dst == Square_new(f, relative_to(5, stm))
      ok == colored_pieces(b, "Pawn", stm) \cap pawn_attacks[attacker_dst][1 - stm]
      left == \E a \in ok : sq_file(a) < sq_file(victim)
      right == \E a \in ok : ~(sq_file(a) < sq_file(victim))
  IN  IF left \/ right THEN set_en_passant(b, EnPassantFile_new(f, left, right)) ELSE b

calc_ep_file(b, f) ==
  LET stm == b.stm
      victim == Square_new(f, relative_to(4, stm))
      attacker_dst == Square_new(f, relative_to(5, stm))
      our_pawns == colored_pieces(b, "Pawn", stm)
      our_king == king(b, stm)
      attackers == our_pawns \cap pawn_attacks[attacker_dst][1 - stm]
      blockers(attacker) == Xor(Xor(Xor(occupied(b), {attacker}), {attacker_dst}), {victim})
      exposed(attacker) ==
        \/ \E o \in rook_rays[our_king] \cap orth_sliders(b, 1 - stm) :
             blockers(attacker) \cap between[our_king][o] = {}
        \/ \E d \in bishop_rays[our_king] \cap diag_sliders(b, 1 - stm) :
             blockers(attacker) \cap between[our_king][d] = {}
      ok == { a \in attackers : ~exposed(a) }
      left == \E a \in ok : sq_file(a) < sq_file(victim)
      right == \E a \in ok : ~(sq_file(a) < sq_file(victim))
  IN  IF left \/ right THEN set_en_passant(b, EnPassantFile_new(f, left, right)) ELSE b

\* Move::new / Move::new_promotion: the promotion bits of a plain move are
\* zero, which promotes_to_unchecked reads as Knight
Move_new(from, to, flag) ==
  [from |-> from, to |-> to, flag |-> flag, promotion |-> "Knight"]

Move_new_promotion(from, to, promote_to) ==
  [from |-> from, to |-> to, flag |-> "Promotion", promotion |-> promote_to]

PromotionPieces == <<"Queen", "Knight", "Rook", "Bishop">>

\* the writes in the order that moves the rook first and the king second
castle_mailbox_m(mailbox, from, rook_from, king_to, rook_to) ==
  [[[[mailbox EXCEPT ![rook_from] = NoPiece]
              EXCEPT ![rook_to] = "Rook"]
              EXCEPT ![from] = NoPiece]
              EXCEPT ![king_to] = "King"]

\* make_move, MoveFlag::Castle: the four mailbox writes, in the source's
\* order (both origins are cleared before either destination is written)
castle_mailbox(mailbox, from, rook_from, king_to, rook_to) ==
  [[[[mailbox EXCEPT ![rook_from] = NoPiece]
              EXCEPT ![from] = NoPiece]
              EXCEPT ![rook_to] = "Rook"]
              EXCEPT ![king_to] = "King"]

\* Board::make_move
make_move(b, mov) ==
  LET from == mov.from
      to == mov.to
      flag == mov.flag
      promotion == mov.promotion
      stm == b.stm
      piece == b.mailbox[from]
      victim == b.mailbox[to]
      captures == victim # NoPiece /\ flag # "Castle"
      b1 == set_en_passant(
              [b EXCEPT
                !.halfmove_clock =
                   IF piece = "Pawn" \/ captures THEN 0 ELSE (@ + 1) % 256,
                !.fullmove_count =
                   (@ + (IF stm = Black THEN 1 ELSE 0)) % 65536],
              NoEp)
      b2 == IF captures
              THEN LET t == toggle_square(b1, to, 1 - stm, victim)
                   IN  IF sq_rank(to) = relative_to(7, stm)
                         THEN drop_castles_on(t, 1 - stm, sq_file(to))
                         ELSE t
              ELSE b1
      dir == IF sq_file(to) < sq_file(from) THEN "Long" ELSE "Short"
      king_to == Square_new(king_dst(dir), sq_rank(from))
      rook_to == Square_new(rook_dst(dir), sq_rank(from))
      target_sq == Square_new(sq_file(to), sq_rank(from))
      no_castles(x) ==
        set_castles(set_castles(x, stm, "Long", NoFile), stm, "Short", NoFile)
      moved ==
        [toggle_square(toggle_square(b2, from, stm, piece), to, stm, piece)
           EXCEPT !.mailbox = [[@ EXCEPT ![from] = NoPiece] EXCEPT ![to] = piece]]
      b3 ==
        CASE flag = "None" ->
               IF piece = "King" THEN no_castles(moved)
               ELSE IF piece = "Rook" /\ sq_rank(from) = relative_to(0, stm)
                 THEN drop_castles_on(moved, stm, sq_file(from))
               ELSE moved
          [] flag = "Castle" ->
               no_castles(
                 [toggle_square(
                    toggle_square(
                      toggle_square(
                        toggle_square(b2, to, stm, "Rook"),
                        rook_to, stm, "Rook"),
                      from, stm, "King"),
                    king_to, stm, "King")
                  EXCEPT !.mailbox = castle_mailbox(@, from, to, king_to, rook_to)])
          [] flag = "EnPassant" ->
               [toggle_square(
                  toggle_square(
                    toggle_square(b2, from, stm, "Pawn"),
                    to, stm, "Pawn"),
                  target_sq, 1 - stm, "Pawn")
                EXCEPT !.mailbox =
                  [[[@ EXCEPT ![from] = NoPiece]
                       EXCEPT ![to] = "Pawn"]
                       EXCEPT ![target_sq] = NoPiece]]
          [] flag = "Promotion" ->
               [toggle_square(toggle_square(b2, from, stm, "Pawn"), to, stm, promotion)
                EXCEPT !.mailbox = [[@ EXCEPT ![from] = NoPiece] EXCEPT ![to] = promotion]]
      double_push ==
        /\ flag = "None"
        /\ piece = "Pawn"
        /\ Abs(sq_rank(from) - sq_rank(to)) = 2
      b4 == [b3 EXCEPT !.stm = 1 - stm, !.hash = Xor(@, {ZobristBlackToMove})]
      b5 == IF double_push THEN calc_ep_file(b4, sq_file(from)) ELSE b4
  IN  calc_threats(b5)

\* ---------------------------------------------------------------------
\* movegen.rs: the legal move generator.  Each generator returns the set
\* of Moves its PieceMoves expand to.
\* ---------------------------------------------------------------------

\* PieceMoves::into_iter: one Move per destination, four per promotion
PieceMoves(flag, from, to) ==
  IF flag = "Promotion"
    THEN { Move_new_promotion(from, t, PromotionPieces[i]) :
             t \in to, i \in 1 .. Len(PromotionPieces) }
    ELSE { Move_new(from, t, flag) : t \in to }

targets(b, in_check) ==
  (IF in_check
     THEN between_inclusive[CHOOSE c \in b.checkers : TRUE][king(b, b.stm)]
     ELSE Squares) \ b.colors[b.stm]

pawn_noisies(b, tgts) ==
  LET stm == b.stm
      push_dir == signum(stm)
      our_pawns == colored_pieces(b, "Pawn", stm)
      our_king == king(b, stm)
      capture_targets == tgts \cap b.colors[1 - stm]
      flag(from) ==
        IF sq_rank(from) = relative_to(6, stm) THEN "Promotion" ELSE "None"
      up_left ==
        UNION { PieceMoves(flag(from), from, shift({from}, -1, 1, push_dir)) :
                  from \in (shift(capture_targets, 1, -1, push_dir) \cap our_pawns)
                             \ (b.pinned \ anti_diag_for(our_king)) }
      up_right ==
        UNION { PieceMoves(flag(from), from, shift({from}, 1, 1, push_dir)) :
                  from \in (shift(capture_targets, -1, -1, push_dir) \cap our_pawns)
                             \ (b.pinned \ main_diag_for(our_king)) }
      promo_push_targets ==
        (rank_bb(relative_to(7, stm)) \ b.colors[1 - stm]) \cap tgts
      promo_push ==
        UNION { PieceMoves("Promotion", from, shift({from}, 0, 1, push_dir)) :
                  from \in (shift(promo_push_targets, 0, -1, push_dir) \cap our_pawns)
                             \ (b.pinned \ file_bb(sq_file(our_king))) }
      en_passant ==
        IF b.en_passant # NoEp
          THEN UNION { PieceMoves("EnPassant", from,
                                  {Square_new(b.en_passant.file, relative_to(5, stm))}) :
                         from \in attacker_bb(b.en_passant, stm) }
          ELSE {}
  IN  up_left \cup up_right \cup promo_push \cup en_passant

\* pawn_quiets that lets a pinned pawn push whatever the line of the pin
pawn_quiets_m(b, tgts) ==
  LET stm == b.stm
      push_dir == signum(stm)
      our_pawns == colored_pieces(b, "Pawn", stm)
      our_king == king(b, stm)
      push_targets == (Squares \ rank_bb(relative_to(7, stm))) \ occupied(b)
      pinned_pawns == {}
      single_push_from ==
        (shift(push_targets, 0, -1, push_dir) \cap our_pawns) \ pinned_pawns
      double_push_from ==
        rank_bb(relative_to(1, stm)) \cap single_push_from
          \cap shift(push_targets, 0, -1, 2 * push_dir)
  IN  UNION { PieceMoves("None", from, shift({from}, 0, 1, push_dir)) :
                from \in single_push_from \cap shift(tgts, 0, -1, push_dir) }
      \cup
      UNION { PieceMoves("None", from, {Square_new(sq_file(from), relative_to(3, stm))}) :
                from \in double_push_from \cap shift(tgts, 0, -1, 2 * push_dir) }

pawn_quiets(b, tgts) ==
  LET stm == b.stm
      push_dir == signum(stm)
      our_pawns == colored_pieces(b, "Pawn", stm)
      our_king == king(b, stm)
      push_targets == (Squares \ rank_bb(relative_to(7, stm))) \ occupied(b)
      pinned_pawns == b.pinned \ file_bb(sq_file(our_king))
      single_push_from ==
        (shift(push_targets, 0, -1, push_dir) \cap our_pawns) \ pinned_pawns
      double_push_from ==
        rank_bb(relative_to(1, stm)) \cap single_push_from
          \cap shift(push_targets, 0, -1, 2 * push_dir)
  IN  UNION { PieceMoves("None", from, shift({from}, 0, 1, push_dir)) :
                from \in single_push_from \cap shift(tgts, 0, -1, push_dir) }
      \cup
      UNION { PieceMoves("None", from, {Square_new(sq_file(from), relative_to(3, stm))}) :
                from \in double_push_from \cap shift(tgts, 0, -1, 2 * push_dir) }

gen_knight_moves(b, tgts) ==
  UNION { PieceMoves("None", from, knight_moves[from] \cap tgts) :
            from \in colored_pieces(b, "Knight", b.stm) \ b.pinned }

sliders(b, tgts, sl, orth) ==
  LET from == b.colors[b.stm] \cap sl
      blockers == occupied(b)
      our_king == king(b, b.stm)
      moves(sq) == IF orth THEN rook_moves(sq, blockers) ELSE bishop_moves(sq, blockers)
  IN  UNION { PieceMoves("None", unpinned, moves(unpinned) \cap tgts) :
                unpinned \in from \ b.pinned }
      \cup
      UNION { PieceMoves("None", pinned, (moves(pinned) \cap tgts) \cap line[our_king][pinned]) :
                pinned \in from \cap b.pinned }

diag_slider_moves(b, tgts) ==
  sliders(b, tgts, b.pieces["Queen"] \cup b.pieces["Bishop"], FALSE)

orth_slider_moves(b, tgts) ==
  sliders(b, tgts, b.pieces["Queen"] \cup b.pieces["Rook"], TRUE)

gen_king_moves(b, in_check) ==
  LET stm == b.stm
      our_king == king(b, stm)
      rank == relative_to(0, stm)
      castle(dir) ==
        LET rook_file == b.castling_rights[stm][dir]
            king_dst_sq == Square_new(king_dst(dir), rank)
            rook_dst_sq == Square_new(rook_dst(dir), rank)
            rook_sq == Square_new(rook_file, rank)
            must_be_safe == between_inclusive[our_king][king_dst_sq]
            must_be_empty ==
              must_be_safe \cup between_inclusive[our_king][rook_sq] \cup {rook_dst_sq}
            blockers == Xor(Xor(occupied(b), {our_king}), {rook_sq})
        IN  IF /\ rook_file # NoFile
               /\ rook_sq \notin b.pinned
               /\ must_be_empty \cap blockers = {}
               /\ must_be_safe \cap b.attacked = {}
              THEN PieceMoves("Castle", our_king, {rook_sq})
              ELSE {}
  IN  PieceMoves("None", our_king, (king_moves[our_king] \ b.attacked) \ b.colors[stm])
      \cup (IF in_check THEN {} ELSE castle("Long") \cup castle("Short"))

gen_moves_impl(b, in_check) ==
  LET tgts == targets(b, in_check)
  IN  pawn_noisies(b, tgts) \cup pawn_quiets(b, tgts) \cup gen_knight_moves(b, tgts)
        \cup orth_slider_moves(b, tgts) \cup diag_slider_moves(b, tgts)
        \cup gen_king_moves(b, in_check)

gen_moves(b) ==
  CASE Cardinality(b.checkers) = 0 -> gen_moves_impl(b, FALSE)
    [] Cardinality(b.checkers) = 1 -> gen_moves_impl(b, TRUE)
    [] OTHER -> gen_king_moves(b, TRUE)

\* ---------------------------------------------------------------------
\* is_legal.rs: legality of one move without generating the moves.
\* ---------------------------------------------------------------------

\* Board::colored_piece_on
colored_piece_on(b, sq, color) ==
  IF sq \in b.colors[color] THEN b.mailbox[sq] ELSE NoPiece

is_legal_en_passant(b, mv) ==
  /\ b.en_passant # NoEp
  /\ mv.flag = "EnPassant"
  /\ mv.from \in attacker_bb(b.en_passant, b.stm)
  /\ mv.to = Square_new(b.en_passant.file, relative_to(5, b.stm))

is_legal_castle(b, mv) ==
  LET from == mv.from
      to == mv.to
      rights == b.castling_rights[b.stm]
      dir == IF rights["Long"] = sq_file(to) THEN "Long" ELSE "Short"
      king_dst_sq == Square_new(king_dst(dir), sq_rank(from))
      rook_dst_sq == Square_new(rook_dst(dir), sq_rank(from))
      must_be_safe == between_inclusive[from][king_dst_sq]
      must_be_empty == must_be_safe \cup between_inclusive[from][to] \cup {rook_dst_sq}
      blockers == Xor(Xor(occupied(b), {from}), {to})
  IN  /\ colored_piece_on(b, from, b.stm) = "King"
      /\ \E d \in {"Long", "Short"} : rights[d] = sq_file(to)
      /\ to \notin b.pinned
      /\ must_be_empty \cap blockers = {}
      /\ must_be_safe \cap b.attacked = {}

\* the piece-movement test shared by the no-check and single-check paths;
\* `victims` is the set a pawn may capture into
piece_reaches(b, piece, mv, victims) ==
  LET from == mv.from
      to == mv.to
      blockers == occupied(b)
  IN  CASE piece = "Pawn" ->
             /\ (sq_rank(to) # relative_to(7, b.stm) \/ mv.flag = "Promotion")
             /\ \/ to \in pawn_attacks[from][b.stm] \cap victims
                \/ to \in pawn_pushes(from, b.stm, blockers)
        [] piece = "Knight" -> to \in knight_moves[from]
        [] piece = "Bishop" -> to \in bishop_moves(from, blockers)
        [] piece = "Rook" -> to \in rook_moves(from, blockers)
        [] piece = "Queen" ->
             to \in bishop_moves(from, blockers) \cup rook_moves(from, blockers)
        [] piece = "King" -> to \in king_moves[from] \ b.attacked

is_legal_no_check(b, mv) ==
  LET from == mv.from
      to == mv.to
      flag == mv.flag
      piece == colored_piece_on(b, from, b.stm)
      our_king == king(b, b.stm)
  IN  IF piece = NoPiece THEN FALSE
      ELSE IF flag = "Castle" THEN is_legal_castle(b, mv)
      ELSE IF flag = "EnPassant" THEN is_legal_en_passant(b, mv)
      ELSE IF flag = "Promotion" /\ piece # "Pawn" THEN FALSE
      ELSE IF to \in b.colors[b.stm] THEN FALSE
      ELSE IF from \in b.pinned /\ to \notin line[our_king][from] THEN FALSE
      ELSE piece_reaches(b, piece, mv, b.colors[1 - b.stm])

\* is_legal_evasion without the test of the attacked squares
is_legal_evasion_m(b, mv) ==
  /\ colored_piece_on(b, mv.from, b.stm) = "King"
  /\ mv.flag = "None"
  /\ mv.to \in king_moves[mv.from] \ b.colors[b.stm]

is_legal_evasion(b, mv) ==
  /\ colored_piece_on(b, mv.from, b.stm) = "King"
  /\ mv.flag = "None"
  /\ mv.to \in king_moves[mv.from] \ (b.colors[b.stm] \cup b.attacked)

is_legal_check(b, mv) ==
  LET from == mv.from
      to == mv.to
      flag == mv.flag
      piece == colored_piece_on(b, from, b.stm)
      checker == CHOOSE c \in b.checkers : TRUE
      our_king == king(b, b.stm)
      tgts == between[our_king][checker] \cup {checker}
  IN  IF piece = NoPiece THEN FALSE
      ELSE IF piece = "King" THEN is_legal_evasion(b, mv)
      ELSE IF flag = "Promotion"
                /\ (piece # "Pawn" \/ sq_rank(to) # relative_to(7, b.stm)) THEN FALSE
      ELSE IF flag = "Castle" THEN FALSE
      ELSE IF to \notin tgts
        THEN /\ b.en_passant # NoEp
             /\ checker = Square_new(b.en_passant.file, relative_to(4, b.stm))
             /\ is_legal_en_passant(b, mv)
      ELSE IF flag = "EnPassant" THEN FALSE
      ELSE IF from \in b.pinned /\ to \notin line[our_king][from] THEN FALSE
      ELSE piece_reaches(b, piece, mv, {checker})

\* Board::is_legal
Board_is_legal(b, mv) ==
  CASE Cardinality(b.checkers) = 0 -> is_legal_no_check(b, mv)
    [] Cardinality(b.checkers) = 1 -> is_legal_check(b, mv)
    [] OTHER -> is_legal_evasion(b, mv)

\* is_legal/test.rs: the candidate moves the legality test is run on, with
\* the castle candidates taken from every back-rank square (Chess960 kings
\* need not start on the e-file)
all_moves ==
  UNION { { Move_new(from, to, "None") :
              to \in knight_moves[from] \cup rook_moves(from, {})
                       \cup bishop_moves(from, {}) } :
          from \in Squares }
  \cup UNION { { Move_new(Square_new(f, relative_to(4, col)), to, "EnPassant") :
                   to \in pawn_attacks[Square_new(f, relative_to(4, col))][col] } :
               f \in 0 .. 7, col \in {White, Black} }
  \cup UNION { { Move_new_promotion(Square_new(f, relative_to(6, col)), to, p) :
                   to \in pawn_attacks[Square_new(f, relative_to(6, col))][col]
                          \cup pawn_pushes(Square_new(f, relative_to(6, col)), col, {}),
                   p \in {"Knight", "Bishop", "Rook", "Queen"} } :
               f \in 0 .. 7, col \in {White, Black} }
  \cup UNION { { Move_new(from, to, "Castle") : to \in rank_bb(sq_rank(from)) \ {from} } :
               from \in rank_bb(0) \cup rank_bb(7) }

\* ---------------------------------------------------------------------
\* board.rs: FEN.  A FEN string is kept as its six space-separated fields:
\* the placement as its eight '/'-separated rows of characters, the
\* castling and en-passant fields as their characters, and the two
\* counters as the numbers their decimal digits spell.
\* ---------------------------------------------------------------------

\* File::to_char
FileChars == <<"A", "B", "C", "D", "E", "F", "G", "H">>

UpperChars == FileChars \o <<"K", "N", "P", "Q", "R">>

LowerChars == <<"a", "b", "c", "d", "e", "f", "g", "h", "k", "n", "p", "q", "r">>

DigitChars == <<"1", "2", "3", "4", "5", "6", "7", "8">>

IndexOf(chars, ch) == CHOOSE i \in 1 .. Len(chars) : chars[i] = ch

InSeq(chars, ch) == \E i \in 1 .. Len(chars) : chars[i] = ch

\* u8::to_ascii_lowercase / is_ascii_lowercase on the characters a FEN holds
to_ascii_lowercase(ch) ==
  IF InSeq(UpperChars, ch) THEN LowerChars[IndexOf(UpperChars, ch)] ELSE ch

is_ascii_lowercase(ch) == InSeq(LowerChars, ch)

\* Piece::to_char
to_char(piece, color) ==
  LET ch == CASE piece = "Knight" -> "N"
              [] piece = "Bishop" -> "B"
              [] piece = "Rook" -> "R"
              [] piece = "Queen" -> "Q"
              [] piece = "Pawn" -> "P"
              [] piece = "King" -> "K"
  IN  IF color = Black THEN to_ascii_lowercase(ch) ELSE ch

NoBoard == [stm |-> 2]

EmptyBoard ==
  [pieces |-> [p \in Pieces |-> {}],
   colors |-> [c \in {White, Black} |-> {}],
   mailbox |-> [s \in Squares |-> NoPiece],
   castling_rights |-> [c \in {White, Black} |-> [d \in {"Long", "Short"} |-> NoFile]],
   en_passant |-> NoEp,
   pinned |-> {}, checkers |-> {}, attacked |-> {},
   halfmove_clock |-> 0, fullmove_count |-> 0, stm |-> White,
   hash |-> {}, pawn_hash |-> {}, minor_hash |-> {}, major_hash |-> {},
   nonpawn_hash |-> [c \in {White, Black} |-> {}]]

RECURSIVE fen_row(_, _, _, _)
\* one rank of Board::fen, from `f` on with `gap` empty squares pending
fen_row(b, rank, f, gap) ==
  IF f = 8
    THEN IF gap # 0 THEN <<DigitChars[gap]>> ELSE <<>>
    ELSE LET sq == Square_new(f, rank)
             pt == b.mailbox[sq]
         IN  IF pt # NoPiece
               THEN (IF gap # 0 THEN <<DigitChars[gap]>> ELSE <<>>)
                      \o <<to_char(pt, IF sq \in b.colors[Black] THEN Black ELSE White)>>
                      \o fen_row(b, rank, f + 1, 0)
               ELSE fen_row(b, rank, f + 1, gap + 1)

\* Board::fen
fen(b, chess960) ==
  LET right(color, dir, std) ==
        LET f == b.castling_rights[color][dir]
            ch == IF ~chess960 THEN std ELSE FileChars[f + 1]
        IN  IF f = NoFile THEN <<>>
            ELSE IF color = White THEN <<ch>>
            ELSE <<to_ascii_lowercase(ch)>>
      castles == right(White, "Short", "K") \o right(White, "Long", "Q")
                   \o right(Black, "Short", "K") \o right(Black, "Long", "Q")
  IN  [pieces |-> [i \in 1 .. 8 |-> fen_row(b, 8 - i, 0, 0)],
       stm |-> IF b.stm = White THEN "w" ELSE "b",
       castles |-> IF castles = <<>> THEN <<"-">> ELSE castles,
       epts |-> IF b.en_passant # NoEp
                  THEN <<to_ascii_lowercase(FileChars[b.en_passant.file + 1]),
                         DigitChars[relative_to(5, b.stm) + 1]>>
                  ELSE <<"-">>,
       hmc |-> b.halfmove_clock,
       fmc |-> b.fullmove_count]

RECURSIVE read_fen_row(_, _, _, _, _)
\* the inner loop of Board::read_fen over the characters of one row
read_fen_row(b, rank, chars, i, f) ==
  IF b = NoBoard \/ i > Len(chars) THEN b
  ELSE LET ch == chars[i]
       IN  IF InSeq(SubSeq(DigitChars, 1, 7), ch)
             THEN read_fen_row(b, rank, chars, i + 1, f + IndexOf(DigitChars, ch))
           ELSE IF f >= 8 THEN NoBoard
           ELSE IF ~\E p \in Pieces : to_ascii_lowercase(ch) = to_char(p, Black)
             THEN NoBoard
           ELSE LET piece == CHOOSE p \in Pieces : to_ascii_lowercase(ch) = to_char(p, Black)
                    color == IF is_ascii_lowercase(ch) THEN Black ELSE White
                    sq == Square_new(f, rank)
                IN  IF b.mailbox[sq] # NoPiece THEN NoBoard
                    ELSE read_fen_row(
                           [toggle_square(b, sq, color, piece) EXCEPT !.mailbox[sq] = piece],
                           rank, chars, i + 1, f + 1)

RECURSIVE read_fen_rows(_, _, _)
read_fen_rows(b, rows, i) ==
  IF b = NoBoard \/ i > Len(rows) THEN b
  ELSE IF i > 8 THEN NoBoard
  ELSE IF rows[i] = <<"8">> THEN read_fen_rows(b, rows, i + 1)
  ELSE read_fen_rows(read_fen_row(b, 8 - i, rows[i], 1, 0), rows, i + 1)

RECURSIVE read_fen_castles(_, _, _)
\* the loop of Board::read_fen over the characters of the castling field
read_fen_castles(b, chars, i) ==
  IF b = NoBoard \/ i > Len(chars) THEN b
  ELSE LET ch == chars[i]
           color == IF is_ascii_lowercase(ch) THEN Black ELSE White
           king_sq == king(b, color)
           rooks == colored_pieces(b, "Rook", color)
           lc == to_ascii_lowercase(ch)
           is_file == InSeq(SubSeq(LowerChars, 1, 8), lc)
           short == { f \in sq_file(king_sq) .. 7 :
                        Square_new(f, sq_rank(king_sq)) \in rooks }
           long == { f \in 0 .. sq_file(king_sq) - 1 :
                       Square_new(f, sq_rank(king_sq)) \in rooks }
           min(S) == CHOOSE x \in S : \A y \in S : x <= y
           max(S) == CHOOSE x \in S : \A y \in S : x >= y
           f == CASE is_file -> IndexOf(LowerChars, lc) - 1
                  [] lc = "k" -> IF short = {} THEN NoFile ELSE min(short)
                  [] lc = "q" -> IF long = {} THEN NoFile ELSE max(long)
                  [] OTHER -> NoFile
           dir == IF f > sq_file(king_sq) THEN "Short" ELSE "Long"
       IN  IF f = NoFile THEN NoBoard
           ELSE IF Square_new(f, sq_rank(king_sq)) \notin rooks THEN NoBoard
           ELSE read_fen_castles(set_castles(b, color, dir, f), chars, i + 1)

\* Board::read_fen
read_fen(text) ==
  LET b1 == read_fen_rows(EmptyBoard, text.pieces, 1)
      kings_ok ==
        /\ Cardinality(colored_pieces(b1, "King", White)) = 1
        /\ Cardinality(colored_pieces(b1, "King", Black)) = 1
      b2 == IF text.stm = "b"
              THEN [b1 EXCEPT !.stm = Black, !.hash = Xor(@, {ZobristBlackToMove})]
              ELSE b1
      b3 == IF text.castles # <<"-">> THEN read_fen_castles(b2, text.castles, 1) ELSE b2
      b4 == IF text.epts # <<"-">>
              THEN calc_ep_file(b3, IndexOf(LowerChars, text.epts[1]) - 1)
              ELSE b3
  IN  IF b1 = NoBoard THEN NoBoard
      ELSE IF ~kings_ok THEN NoBoard
      ELSE IF Len(text.pieces) # 8 THEN NoBoard
      ELSE IF text.stm \notin {"w", "b"} THEN NoBoard
      ELSE IF b3 = NoBoard THEN NoBoard
      ELSE IF text.epts # <<"-">>
                /\ ~(/\ Len(text.epts) >= 2
                     /\ InSeq(SubSeq(LowerChars, 1, 8), text.epts[1])
                     /\ text.epts[2] \in {"3", "6"}) THEN NoBoard
      ELSE IF text.hmc >= 100 THEN NoBoard
      ELSE calc_threats([b4 EXCEPT !.halfmove_clock = text.hmc,
                                   !.fullmove_count = text.fmc])

\* the start position: "rnbqkbnr/pppppppp/8/8/8/8/PPPPPPPP/RNBQKBNR w KQkq - 0 1"
StartPosFen ==
    [pieces |-> <<<<"r", "n", "b", "q", "k", "b", "n", "r">>,
                  <<"p", "p", "p", "p", "p", "p", "p", "p">>,
                  <<"8">>,
                  <<"8">>,
                  <<"8">>,
                  <<"8">>,
                  <<"P", "P", "P", "P", "P", "P", "P", "P">>,
                  <<"R", "N", "B", "Q", "K", "B", "N", "R">>>>,
     stm |-> "w", castles |-> <<"K", "Q", "k", "q">>, epts |-> <<"-">>, hmc |-> 0, fmc |-> 1]

\* en passant against a king and rook on the fifth rank: "8/2p5/3p4/KP5r/1R3p1k/8/4P1P1/8 w - - 0 1"
PinnedEpFen ==
    [pieces |-> <<<<"8">>,
                  <<"2", "p", "5">>,
                  <<"3", "p", "4">>,
                  <<"K", "P", "5", "r">>,
                  <<"1", "R", "3", "p", "1", "k">>,
                  <<"8">>,
                  <<"4", "P", "1", "P", "1">>,
                  <<"8">>>>,
     stm |-> "w", castles |-> <<"-">>, epts |-> <<"-">>, hmc |-> 0, fmc |-> 1]

\* a double push that checks the king, one en-passant capture legal and one pinned: "2r3k1/3p1p2/8/2P1P3/2K5/8/8/8 b - - 0 1"
LegalEpFen ==
    [pieces |-> <<<<"2", "r", "3", "k", "1">>,
                  <<"3", "p", "1", "p", "2">>,
                  <<"8">>,
                  <<"2", "P", "1", "P", "3">>,
                  <<"2", "K", "5">>,
                  <<"8">>,
                  <<"8">>,
                  <<"8">>>>,
     stm |-> "b", castles |-> <<"-">>, epts |-> <<"-">>, hmc |-> 0, fmc |-> 1]

\* Chess960 castles: a king that swaps with its rook, a king that stays: "r1k4r/8/8/8/8/8/8/1R3KR1 w GBha - 0 1"
FrcFen ==
    [pieces |-> <<<<"r", "1", "k", "4", "r">>,
                  <<"8">>,
                  <<"8">>,
                  <<"8">>,
                  <<"8">>,
                  <<"8">>,
                  <<"8">>,
                  <<"1", "R", "3", "K", "R", "1">>>>,
     stm |-> "w", castles |-> <<"G", "B", "h", "a">>, epts |-> <<"-">>, hmc |-> 0, fmc |-> 1]

\* a second rook that can step between the king and its castling rook: "4k3/8/8/8/8/8/6R1/4K2R w K - 0 1"
TwoRooksFen ==
    [pieces |-> <<<<"4", "k", "3">>,
                  <<"8">>,
                  <<"8">>,
                  <<"8">>,
                  <<"8">>,
                  <<"8">>,
                  <<"6", "R", "1">>,
                  <<"4", "K", "2", "R">>>>,
     stm |-> "w", castles |-> <<"K">>, epts |-> <<"-">>, hmc |-> 0, fmc |-> 1]

\* promotions with and without capture, a discovered double check: "3rk3/1P6/8/8/4N3/8/6p1/4R1KR w - - 0 1"
PromoFen ==
    [pieces |-> <<<<"3", "r", "k", "3">>,
                  <<"1", "P", "6">>,
                  <<"8">>,
                  <<"8">>,
                  <<"4", "N", "3">>,
                  <<"8">>,
                  <<"6", "p", "1">>,
                  <<"4", "R", "1", "K", "R">>>>,
     stm |-> "w", castles |-> <<"-">>, epts |-> <<"-">>, hmc |-> 0, fmc |-> 1]

\* Chess960: a king on the b-file that castles short with the rook beside it: "4k3/8/8/8/8/8/8/RKR5 w CA - 0 1"
LeftKingFen ==
    [pieces |-> <<<<"4", "k", "3">>,
                  <<"8">>,
                  <<"8">>,
                  <<"8">>,
                  <<"8">>,
                  <<"8">>,
                  <<"8">>,
                  <<"R", "K", "R", "5">>>>,
     stm |-> "w", castles |-> <<"C", "A">>, epts |-> <<"-">>, hmc |-> 0, fmc |-> 1]

\* a halfmove clock one ply short of one hundred: "4k3/8/8/8/8/8/8/4K2R w K - 99 60"
LateFen ==
    [pieces |-> <<<<"4", "k", "3">>,
                  <<"8">>,
                  <<"8">>,
                  <<"8">>,
                  <<"8">>,
                  <<"8">>,
                  <<"8">>,
                  <<"4", "K", "2", "R">>>>,
     stm |-> "w", castles |-> <<"K">>, epts |-> <<"-">>, hmc |-> 99, fmc |-> 60]

\* ---------------------------------------------------------------------
\* A board under play: the position, the moves made on it, and the FEN
\* text written from it and read back.
\* ---------------------------------------------------------------------

\* plies played on a position
MaxWalk == 2

\* Move is a NonZeroU16: the all-zero pattern is no move
NoMove == Move_new(0, 0, "None")

NoFen == [pieces |-> <<>>, stm |-> "", castles |-> <<>>, epts |-> <<>>,
          hmc |-> 0, fmc |-> 0]

BoardIdle ==
  /\ board = NoBoard
  /\ walk = 0
  /\ lastMove = NoMove
  /\ fenText = NoFen
  /\ fenMode = FALSE
  /\ reparsed = <<>>

\* search / perft / a random walk: board.make_move(mv) for a generated move
BoardMakeMove ==
  /\ board # NoBoard
  /\ fenText = NoFen
  /\ walk < MaxWalk
  /\ \E mv \in gen_moves(board) :
       /\ board' = make_move(board, mv)
       /\ lastMove' = mv
  /\ walk' = walk + 1
  /\ UNCHANGED <<fenText, fenMode, reparsed>>
  /\ UNCHANGED <<chanVars, searcherVars, tableVars, pickerVars, extraVars>>

\* UciCommand::parse, `position ... moves`: a move is made once is_legal
\* has accepted it
UciPositionMove ==
  /\ board # NoBoard
  /\ fenText = NoFen
  /\ walk < MaxWalk
  /\ \E mv \in all_moves :
       /\ Board_is_legal(board, mv)
       /\ board' = make_move(board, mv)
       /\ lastMove' = mv
  /\ walk' = walk + 1
  /\ UNCHANGED <<fenText, fenMode, reparsed>>
  /\ UNCHANGED <<chanVars, searcherVars, tableVars, pickerVars, extraVars>>

\* board.fen(chess960)
BoardFen ==
  /\ board # NoBoard
  /\ fenText = NoFen
  /\ \E chess960 \in BOOLEAN :
       /\ fenText' = fen(board, chess960)
       /\ fenMode' = chess960
  /\ UNCHANGED <<board, walk, lastMove, reparsed>>
  /\ UNCHANGED <<chanVars, searcherVars, tableVars, pickerVars, extraVars>>

\* Board::read_fen on the text just written
BoardReadFen ==
  /\ fenText # NoFen
  /\ reparsed = <<>>
  /\ reparsed' = <<read_fen(fenText)>>
  /\ UNCHANGED <<board, walk, lastMove, fenText, fenMode>>
  /\ UNCHANGED <<chanVars, searcherVars, tableVars, pickerVars, extraVars>>

\* ===== end of icarus-board =====

\* ===== nnue, uci, counters, time =====

\* ---------------------------------------------------------------------
\* nnue: the accumulator stack.  A weight row of the network is named by
\* its feature index and ft_bias by BiasRow; an accumulator is the set of
\* <<row, n>> with n # 0 the number of times the row is added in (negative:
\* subtracted).  The i16 sums wrap, so two accumulators with the same rows
\* and counts are equal bit for bit whatever the weights.
\* ---------------------------------------------------------------------

BiasRow == 0 - 1

\* Piece as usize
PieceIndex(piece) ==
  CASE piece = "Pawn" -> 0 [] piece = "Knight" -> 1 [] piece = "Bishop" -> 2
    [] piece = "Rook" -> 3 [] piece = "Queen" -> 4 [] piece = "King" -> 5

\* Square::flip_rank
flip_rank(sq) == Square_new(sq_file(sq), 7 - sq_rank(sq))

\* the mirror image of a square across the D/E border
flip_file(sq) == Square_new(7 - sq_file(sq), sq_rank(sq))

Feature(square, piece, color) == [square |-> square, piece |-> piece, color |-> color]

\* Feature::idx(perspective) of accumulator.rs
Feature_idx_plain(f, perspective) ==
  LET square == IF perspective = White THEN f.square ELSE flip_rank(f.square)
      color == IF perspective = White THEN f.color ELSE 1 - f.color
  IN  square + 64 * (PieceIndex(f.piece) + 6 * color)

\* Feature::idx(perspective, king) as network.rs calls it: the board is
\* mirrored when the perspective's king stands on files E to H
Feature_idx(f, perspective, king_sq) ==
  Feature_idx_plain(
    IF sq_file(king_sq) > 3 THEN [f EXCEPT !.square = flip_file(@)] ELSE f,
    perspective)

\* the count of a row in an accumulator
RowCount(acc, row) ==
  IF \E e \in acc : e[1] = row
    THEN (CHOOSE e \in acc : e[1] = row)[2]
    ELSE 0

\* acc[i] += n * weight[i] for the weights of one row
AddRow(acc, row, n) ==
  LET c == RowCount(acc, row) + n
  IN  { e \in acc : e[1] # row } \cup (IF c # 0 THEN {<<row, c>>} ELSE {})

RECURSIVE AddRows(_, _, _)
AddRows(acc, rows, n) ==
  IF rows = <<>> THEN acc
  ELSE AddRows(AddRow(acc, Head(rows), n), Tail(rows), n)

\* accumulator.rs: acc_add
acc_add(acc, adds) == AddRows(acc, adds, 1)

\* accumulator.rs: acc_add_sub, acc_add_sub2, acc_add2_sub2
\*   dst[i] = src[i] + add.. - sub..
acc_add_sub(src, adds, subs) == AddRows(AddRows(src, adds, 1), subs, 0 - 1)

\* Updates::default and the frames Nnue::new fills the stack with
NoUpdates == [adds |-> <<>>, subs |-> <<>>]

ZeroAccumulator ==
  [values |-> [c \in {White, Black} |-> {}],
   dirty |-> [c \in {White, Black} |-> FALSE],
   updates |-> NoUpdates]

\* Updates::remove_piece / add_piece / move_piece
remove_piece(u, square, piece, color) ==
  [u EXCEPT !.subs = Append(@, Feature(square, piece, color))]

add_piece(u, square, piece, color) ==
  [u EXCEPT !.adds = Append(@, Feature(square, piece, color))]

move_piece(u, from, to, piece, color) ==
  add_piece(remove_piece(u, from, piece, color), to, piece, color)

\* the squares in Square::all() order
RECURSIVE SquaresFrom(_)
SquaresFrom(sq) == IF sq = 64 THEN <<>> ELSE <<sq>> \o SquaresFrom(sq + 1)

\* Nnue::reset
Nnue_reset(n, b, perspective) ==
  LET king_sq == king(b, perspective)
      occ == SelectSeq(SquaresFrom(0), LAMBDA sq : b.mailbox[sq] # NoPiece)
      adds == [i \in 1 .. Len(occ) |->
                 Feature_idx(Feature(occ[i], b.mailbox[occ[i]],
                                     IF occ[i] \in b.colors[Black] THEN Black ELSE White),
                             perspective, king_sq)]
  IN  [n EXCEPT !.stack[n.idx].values[perspective] = acc_add({<<BiasRow, 1>>}, adds),
                !.stack[n.idx].dirty[perspective] = FALSE]

\* Nnue::full_reset
Nnue_full_reset(n, b) ==
  Nnue_reset(Nnue_reset([n EXCEPT !.idx = 0], b, White), b, Black)

\* Move::castling_dir / Move::captures
castling_dir(mv) ==
  IF mv.flag # "Castle" THEN "None"
  ELSE IF sq_file(mv.to) < sq_file(mv.from) THEN "Long" ELSE "Short"

captures(mv, b) ==
  IF mv.flag = "Castle" THEN NoPiece ELSE b.mailbox[mv.to]

\* Nnue::make_move
Nnue_make_move(n, old_board, new_board, mv) ==
  LET from == mv.from
      to == mv.to
      piece == old_board.mailbox[from]
      stm == old_board.stm
      dir == castling_dir(mv)
      rank == relative_to(0, stm)
      u1 == IF dir # "None"
              THEN move_piece(
                     move_piece(NoUpdates, from, Square_new(king_dst(dir), rank), "King", stm),
                     to, Square_new(rook_dst(dir), rank), "Rook", stm)
            ELSE IF mv.flag = "Promotion"
              THEN add_piece(remove_piece(NoUpdates, from, piece, stm), to, mv.promotion, stm)
            ELSE move_piece(NoUpdates, from, to, piece, stm)
      u2 == IF mv.flag = "EnPassant"
              THEN remove_piece(u1, Square_new(sq_file(to), sq_rank(from)), "Pawn", 1 - stm)
            ELSE IF captures(mv, old_board) # NoPiece
              THEN remove_piece(u1, to, captures(mv, old_board), 1 - stm)
            ELSE u1
      n1 == [n EXCEPT !.stack[n.idx].updates = u2,
                      !.stack[n.idx + 1].dirty = [c \in {White, Black} |-> TRUE],
                      !.idx = n.idx + 1]
  IN  IF piece = "King" /\ (sq_file(from) > 3) # (sq_file(to) > 3)
        THEN Nnue_reset(n1, new_board, stm)
        ELSE n1

\* Nnue::unmake_move
Nnue_unmake_move(n) == [n EXCEPT !.idx = n.idx - 1]

\* update_color: the frames from the nearest clean one up to idx, each
\* from the one below by the updates recorded there
RECURSIVE replay(_, _, _, _)
replay(n, perspective, king_sq, i) ==
  IF i = n.idx THEN n
  ELSE LET clean == n.stack[i]
           rows(fs) == [k \in 1 .. Len(fs) |-> Feature_idx(fs[k], perspective, king_sq)]
           vals == acc_add_sub(clean.values[perspective],
                               rows(clean.updates.adds), rows(clean.updates.subs))
       IN  replay([n EXCEPT !.stack[i + 1].values[perspective] = vals,
                            !.stack[i + 1].dirty[perspective] = FALSE],
                  perspective, king_sq, i + 1)

update_color(n, perspective, king_sq) ==
  LET clean_idx == CHOOSE i \in 0 .. n.idx - 1 :
                     /\ ~n.stack[i].dirty[perspective]
                     /\ \A j \in i + 1 .. n.idx - 1 : n.stack[j].dirty[perspective]
  IN  replay(n, perspective, king_sq, clean_idx)

\* Nnue::update
Nnue_update(n, b) ==
  LET n1 == IF n.stack[n.idx].dirty[White] THEN update_color(n, White, king(b, White)) ELSE n
  IN  IF n1.stack[n1.idx].dirty[Black] THEN update_color(n1, Black, king(b, Black)) ELSE n1

\* Nnue::new: MaxWalk + 1 frames stand for the MAX_PLY + 1 of the source
Nnue_new(b) ==
  Nnue_full_reset([stack |-> [i \in 0 .. MaxWalk |-> ZeroAccumulator], idx |-> 0], b)

NoNnue == [idx |-> 0 - 1]

NnueIdle ==
  /\ nnue = NoNnue
  /\ history = <<>>

\* Position::make_move with the worker's Nnue
PositionMakeMove ==
  /\ nnue # NoNnue
  /\ walk < MaxWalk
  /\ \E mv \in gen_moves(board) :
       LET new_board == make_move(board, mv)
       IN  /\ nnue' = Nnue_make_move(nnue, board, new_board, mv)
           /\ history' = Append(history, [board |-> board, mv |-> lastMove])
           /\ board' = new_board
           /\ lastMove' = mv
  /\ walk' = walk + 1
  /\ UNCHANGED <<fenText, fenMode, reparsed>>
  /\ UNCHANGED <<chanVars, searcherVars, tableVars, pickerVars, notNnueVars>>

\* The frames above idx hold what the line just left wrote.  Nothing reads
\* them before it writes them: make_move marks frame idx + 1 dirty for both
\* perspectives and overwrites the updates of frame idx, reset and
\* update_color write a frame's values before they clear its dirty flag, and
\* update_color looks for a clean frame below idx only.  They are kept as
\* built, so that two stacks that differ only there are one state.
Forget(n) ==
  [n EXCEPT !.stack = [i \in 0 .. MaxWalk |->
                         IF i > n.idx THEN ZeroAccumulator
                         ELSE IF i = n.idx THEN [n.stack[i] EXCEPT !.updates = NoUpdates]
                         ELSE n.stack[i]]]

\* Position::unmake_move
PositionUnmakeMove ==
  /\ nnue # NoNnue
  /\ walk > 0
  /\ nnue' = Forget(Nnue_unmake_move(nnue))
  /\ board' = history[Len(history)].board
  /\ lastMove' = history[Len(history)].mv
  /\ history' = SubSeq(history, 1, Len(history) - 1)
  /\ walk' = walk - 1
  /\ UNCHANGED <<fenText, fenMode, reparsed>>
  /\ UNCHANGED <<chanVars, searcherVars, tableVars, pickerVars, notNnueVars>>

\* Position::eval: nnue.update before the forward pass
PositionEval ==
  /\ nnue # NoNnue
  /\ nnue' = Nnue_update(nnue, board)
  /\ UNCHANGED <<history, boardVars>>
  /\ UNCHANGED <<chanVars, searcherVars, tableVars, pickerVars, notNnueVars>>

\* ---------------------------------------------------------------------
\* uci.rs / engine.rs: a command line with a list of moves.  A token is
\* the sequence of its characters; a character is one byte of UTF-8 but
\* for WideChar, which is two.
\* ---------------------------------------------------------------------

WideChar == "e-acute"

Utf8Width(ch) == IF ch = WideChar THEN 2 ELSE 1

RECURSIVE str_len(_)
\* str::len, in bytes
str_len(s) == IF s = <<>> THEN 0 ELSE Utf8Width(Head(s)) + str_len(Tail(s))

\* str::is_char_boundary
is_char_boundary(s, n) == \E k \in 0 .. Len(s) : str_len(SubSeq(s, 1, k)) = n

\* &s[a..b] for char boundaries a <= b
str_slice(s, a, b) ==
  LET first == CHOOSE k \in 0 .. Len(s) : str_len(SubSeq(s, 1, k)) = a
      stop == CHOOSE k \in 0 .. Len(s) : str_len(SubSeq(s, 1, k)) = b
  IN  SubSeq(s, first + 1, stop)

NoSquare == 64

\* Square::parse
Square_parse(s) ==
  IF str_len(s) # 2 \/ Len(s) # 2 THEN NoSquare
  ELSE LET f == to_ascii_lowercase(s[1])
           r == s[2]
       IN  IF InSeq(SubSeq(LowerChars, 1, 8), f) /\ InSeq(DigitChars, r)
             THEN Square_new(IndexOf(LowerChars, f) - 1, IndexOf(DigitChars, r) - 1)
             ELSE NoSquare

\* Piece::from_char
from_char(ch) ==
  LET c == to_ascii_lowercase(ch)
  IN  CASE c = "n" -> "Knight" [] c = "b" -> "Bishop" [] c = "r" -> "Rook"
        [] c = "q" -> "Queen" [] c = "p" -> "Pawn" [] c = "k" -> "King"
        [] OTHER -> NoPiece

ParsedMove(mv) == [kind |-> "Some", mv |-> mv]

ParsedNone == [kind |-> "None", mv |-> NoMove]

ParsedPanic == [kind |-> "Panic", mv |-> NoMove]

\* Board::parse_move; indexing a str off a char boundary panics
parse_move(b, lan, chess960) ==
  IF ~(str_len(lan) \in 4 .. 5) THEN ParsedNone
  ELSE IF ~is_char_boundary(lan, 2) THEN ParsedPanic
  ELSE LET from == Square_parse(str_slice(lan, 0, 2))
       IN
  IF from = NoSquare THEN ParsedNone
  ELSE IF ~is_char_boundary(lan, 4) THEN ParsedPanic
  ELSE LET to == Square_parse(str_slice(lan, 2, 4))
           has5 == str_len(lan) = 5
           promote_to == IF has5 THEN from_char(lan[Len(lan)]) ELSE NoPiece
           stm == b.stm
           castle_file ==
             IF b.mailbox[from] # "King" THEN NoFile
             ELSE IF ~chess960 /\ sq_file(from) = 4 /\ sq_file(to) \in {2, 6}
               THEN b.castling_rights[stm][IF sq_file(to) = 2 THEN "Long" ELSE "Short"]
             ELSE IF to \in colored_pieces(b, "Rook", stm) THEN sq_file(to)
             ELSE NoFile
           returns_none ==
             /\ b.mailbox[from] = "King"
             /\ ~chess960 /\ sq_file(from) = 4 /\ sq_file(to) \in {2, 6}
             /\ castle_file = NoFile
           is_ep ==
             /\ b.mailbox[from] = "Pawn"
             /\ sq_rank(from) = relative_to(4, stm)
             /\ b.en_passant # NoEp
             /\ b.en_passant.file = sq_file(to)
       IN
  IF to = NoSquare THEN ParsedNone
  ELSE IF has5 /\ promote_to = NoPiece THEN ParsedNone
  ELSE IF has5 THEN
         IF promote_to \in {"Pawn", "King"} THEN ParsedNone
         ELSE ParsedMove(Move_new_promotion(from, to, promote_to))
  ELSE IF returns_none THEN ParsedNone
  ELSE IF castle_file # NoFile
         THEN ParsedMove(Move_new(from, Square_new(castle_file, sq_rank(to)), "Castle"))
  ELSE ParsedMove(Move_new(from, to, IF is_ep THEN "EnPassant" ELSE "None"))

\* Display of a Square with {:#}
SquareText(sq) == <<LowerChars[sq_file(sq) + 1], DigitChars[sq_rank(sq) + 1]>>

\* Move::display
display(mv, chess960) ==
  LET to == IF ~chess960 /\ mv.flag = "Castle"
              THEN Square_new(IF sq_file(mv.to) < sq_file(mv.from) THEN 2 ELSE 6,
                              sq_rank(mv.from))
              ELSE mv.to
  IN  SquareText(mv.from) \o SquareText(to)
        \o (IF mv.flag = "Promotion" THEN <<to_char(mv.promotion, Black)>> ELSE <<>>)

\* the outcome of one command line
ParseOk(b, moves) == [result |-> "Ok", token |-> <<>>, board |-> b, moves |-> moves]

ParseInvalidMove(tok) ==
  [result |-> "InvalidMove", token |-> tok, board |-> NoBoard, moves |-> <<>>]

ParsePanic == [result |-> "Panic", token |-> <<>>, board |-> NoBoard, moves |-> <<>>]

RECURSIVE parse_position_moves(_, _, _, _, _)
\* UciCommand::parse, "position": the loop over the parts after `moves`
parse_position_moves(startpos, current, moves, parts, chess960) ==
  IF parts = <<>> THEN ParseOk(startpos, moves)
  ELSE LET part == Head(parts)
           mv == parse_move(current, part, chess960)
       IN  IF mv.kind = "Panic" THEN ParsePanic
           ELSE IF mv.kind = "None" THEN ParseInvalidMove(part)
           ELSE IF ~Board_is_legal(current, mv.mv) THEN ParseInvalidMove(part)
           ELSE parse_position_moves(startpos, make_move(current, mv.mv),
                                     Append(moves, mv.mv), Tail(parts), chess960)

RECURSIVE parse_searchmoves(_, _, _, _)
\* UciCommand::parse, "go": the loop over the tokens after `searchmoves`
parse_searchmoves(b, moves, tokens, chess960) ==
  IF tokens = <<>> THEN ParseOk(b, moves)
  ELSE LET token == Head(tokens)
           mv == parse_move(b, token, chess960)
       IN  IF mv.kind = "Panic" THEN ParsePanic
           ELSE IF mv.kind = "None" THEN ParseInvalidMove(token)
           ELSE IF ~Board_is_legal(b, mv.mv) THEN ParseInvalidMove(token)
           ELSE parse_searchmoves(b, Append(moves, mv.mv), Tail(tokens), chess960)

RECURSIVE make_moves(_, _)
\* Engine::position: the moves made one after the other
make_moves(b, moves) ==
  IF moves = <<>> THEN b ELSE make_moves(make_move(b, Head(moves)), Tail(moves))

\* command lines read by one run of the engine
MaxLines == 1

\* tokens after `moves` or `searchmoves` in one line
MaxTokens == 2

NoReply == [kind |-> "", result |-> "", token |-> <<>>, searched |-> FALSE, bad |-> <<>>]

\* tokens that are no move: too short, a square off the board, a king to
\* promote to, an unknown piece letter, and three with a two-byte character
JunkTokens ==
  { <<"e", "2">>,
    <<"z", "9", "e", "4">>,
    <<"e", "2", "e", "4", "k">>,
    <<"e", "2", "e", "4", "x">>,
    <<WideChar, WideChar>>,
    <<"e", WideChar, "4">>,
    <<"e", "2", "e", WideChar>> }

\* the tokens a line is made of: the texts of the moves legal in b and in
\* the positions one move on, and the junk
TokenPool(b, chess960) ==
  { display(mv, chess960) : mv \in gen_moves(b) }
    \cup UNION { { display(mv2, chess960) : mv2 \in gen_moves(make_move(b, mv1)) }
                 : mv1 \in gen_moves(b) }
    \cup JunkTokens

TokenLists(b, chess960) ==
  UNION { [1 .. n -> TokenPool(b, chess960)] : n \in 0 .. MaxTokens }

\* the legal moves of b a token is the text of: a castle is written as
\* king takes rook, and outside Chess960 also as the move of a king from
\* the e-file to its destination
MovesOfText(b, tok, chess960) ==
  { mv \in gen_moves(b) :
      \/ tok = display(mv, TRUE)
      \/ ~chess960 /\ sq_file(mv.from) = 4 /\ tok = display(mv, FALSE) }

RECURSIVE FirstBadInGame(_, _, _)
\* the first token of a `moves` list that is not the text of a move legal
\* where it is to be played (<<>>: none)
FirstBadInGame(b, toks, chess960) ==
  IF toks = <<>> THEN <<>>
  ELSE IF MovesOfText(b, Head(toks), chess960) = {} THEN Head(toks)
  ELSE FirstBadInGame(make_move(b, CHOOSE mv \in MovesOfText(b, Head(toks), chess960) : TRUE),
                      Tail(toks), chess960)

\* the first token of a `searchmoves` list that is not the text of a move
\* legal in b
FirstBadInList(b, toks, chess960) ==
  IF \E i \in 1 .. Len(toks) : MovesOfText(b, toks[i], chess960) = {}
    THEN toks[CHOOSE i \in 1 .. Len(toks) :
                /\ MovesOfText(b, toks[i], chess960) = {}
                /\ \A j \in 1 .. i - 1 : MovesOfText(b, toks[j], chess960) # {}]
    ELSE <<>>

EngineFens == {LateFen, LeftKingFen, LegalEpFen}

\* Engine::run on the outcome of UciCommand::parse for a `position` line:
\* on Ok handle_cmd -> Engine::position, an Err is printed and the loop
\* goes on; bad is the first token of the line that is no legal move
RunPosition(cmd, bad) ==
  /\ board' = IF cmd.result = "Ok" THEN make_moves(cmd.board, cmd.moves) ELSE board
  /\ walk' = IF cmd.result = "Ok" THEN Len(cmd.moves) ELSE walk
  /\ lastMove' = IF cmd.result = "Ok"
                   THEN (IF cmd.moves = <<>> THEN NoMove ELSE cmd.moves[Len(cmd.moves)])
                   ELSE lastMove
  /\ reply' = [kind |-> "position", result |-> cmd.result, token |-> cmd.token,
               searched |-> FALSE, bad |-> bad]

\* Engine::run, one line `position fen <fen> moves <parts>`
EnginePositionLine ==
  /\ board # NoBoard
  /\ reply.result # "Panic"
  /\ linesRead < MaxLines
  /\ \E startpos \in { read_fen(f) : f \in EngineFens } :
       \E parts \in TokenLists(startpos, uciChess960) :
         RunPosition(parse_position_moves(startpos, startpos, <<>>, parts, uciChess960),
                     FirstBadInGame(startpos, parts, uciChess960))
  /\ prevBoard' = board
  /\ linesRead' = linesRead + 1
  /\ UNCHANGED <<uciChess960, fenText, fenMode, reparsed>>
  /\ UNCHANGED <<chanVars, searcherVars, tableVars, pickerVars, notUciVars>>

\* Engine::run on the outcome of UciCommand::parse for a `go` line: on Ok
\* handle_cmd -> Engine::go -> Searcher::search
RunGo(cmd, bad) ==
  reply' = [kind |-> "go", result |-> cmd.result, token |-> cmd.token,
            searched |-> cmd.result = "Ok", bad |-> bad]

\* Engine::run, one line `go searchmoves <tokens>`, parsed against the
\* engine's board
EngineGoLine ==
  /\ board # NoBoard
  /\ reply.result # "Panic"
  /\ linesRead < MaxLines
  /\ \E tokens \in TokenLists(board, uciChess960) :
       RunGo(parse_searchmoves(board, <<>>, tokens, uciChess960),
             FirstBadInList(board, tokens, uciChess960))
  /\ prevBoard' = board
  /\ linesRead' = linesRead + 1
  /\ UNCHANGED <<uciChess960, boardVars>>
  /\ UNCHANGED <<chanVars, searcherVars, tableVars, pickerVars, notUciVars>>

UciIdle ==
  /\ uciChess960 = FALSE
  /\ linesRead = 0
  /\ reply = NoReply
  /\ prevBoard = NoBoard

\* ---------------------------------------------------------------------
\* util/buffered_counter.rs: a local counter doing buffered writes to a
\* backing atomic, and its use by Searcher::search and the worker.
\* ---------------------------------------------------------------------

FLUSH_THRESHOLD == 1024

\* Searcher::default spawns one worker with one counter; the counter is
\* made for several sharing one atomic, and is checked with two.
NumCounters == 2

\* runs of inc() calls a counter makes in all
MaxBursts == 3

\* lengths of a run of inc() calls
NodeBursts == {1, FLUSH_THRESHOLD - 1, FLUSH_THRESHOLD}

CounterIds == 1 .. NumCounters

BufferedCounter_new == [local |-> 0, buffer |-> 0]

\* The operations take the counter c and the value g of the backing
\* atomic and give <<counter, atomic>>.

\* fetch_add(buffer), buffer = 0
flush(c, g) == <<[c EXCEPT !.buffer = 0], g + c.buffer>>

inc_m(c, g) ==
  LET c1 == [c EXCEPT !.local = @ + 1, !.buffer = @ + 1]
  IN  IF c1.buffer > FLUSH_THRESHOLD THEN flush(c1, g) ELSE <<c1, g>>

inc(c, g) ==
  LET c1 == [c EXCEPT !.local = @ + 1, !.buffer = @ + 1]
  IN  IF c1.buffer >= FLUSH_THRESHOLD THEN flush(c1, g) ELSE <<c1, g>>

local(c) == c.local

\* load + buffer
global(c, g) == g + c.buffer

reset_local(c) == [c EXCEPT !.local = 0, !.buffer = 0]

\* n calls of inc(), as a first half and a second half; the fetch_adds of
\* other counters in between add to the same atomic and commute with these
RECURSIVE inc_times(_, _, _)
inc_times(c, g, n) ==
  IF n = 0 THEN <<c, g>>
  ELSE IF n = 1 THEN inc(c, g)
  ELSE LET r == inc_times(c, g, n \div 2)
       IN  IF r[2] >= g THEN inc_times(r[1], r[2], n - (n \div 2)) ELSE r

CounterIdle ==
  /\ nodesAtomic = 0
  /\ counters = <<>>
  /\ cphase = <<>>
  /\ mphase = "none"
  /\ incsSinceReset = <<>>
  /\ incsSinceZero = 0
  /\ bursts = <<>>

\* Searcher::is_running as the workers leave it: num_searching is 0 from
\* the last worker's store(0) at the end of id_loop until the next
\* store(1) of Searcher::search
CountersRunning == \E i \in CounterIds : cphase[i] \notin {"recv", "tail"}

\* Searcher::search: assert !is_running, nodes.store(0)
SearcherZero ==
  /\ mphase = "idle"
  /\ ~CountersRunning
  /\ \E i \in CounterIds : bursts[i] < MaxBursts
  /\ nodesAtomic' = 0
  /\ incsSinceZero' = 0
  /\ mphase' = "send"
  /\ UNCHANGED <<counters, cphase, incsSinceReset, bursts>>
  /\ UNCHANGED <<chanVars, searcherVars, tableVars, pickerVars, boardVars, notCounterVars>>

\* Searcher::search: command_sender.send(Search), which returns once
\* every worker has taken the command
SearcherSend ==
  /\ mphase = "send"
  /\ \A i \in CounterIds : cphase[i] = "recv"
  /\ cphase' = [i \in CounterIds |-> "search"]
  /\ mphase' = "idle"
  /\ UNCHANGED <<nodesAtomic, counters, incsSinceReset, incsSinceZero, bursts>>
  /\ UNCHANGED <<chanVars, searcherVars, tableVars, pickerVars, boardVars, notCounterVars>>

\* worker_thread_loop on Search: nodes.reset_local(), then id_loop
WorkerReset(i) ==
  /\ cphase[i] = "search"
  /\ counters' = [counters EXCEPT ![i] = reset_local(@)]
  /\ incsSinceReset' = [incsSinceReset EXCEPT ![i] = 0]
  /\ cphase' = [cphase EXCEPT ![i] = "nodes"]
  /\ UNCHANGED <<nodesAtomic, mphase, incsSinceZero, bursts>>
  /\ UNCHANGED <<chanVars, searcherVars, tableVars, pickerVars, boardVars, notCounterVars>>

\* search(): thread.nodes.inc() at each node
SearchNodes(i) ==
  /\ cphase[i] = "nodes"
  /\ bursts[i] < MaxBursts
  /\ \E n \in NodeBursts :
       LET r == inc_times(counters[i], nodesAtomic, n)
       IN  /\ counters' = [counters EXCEPT ![i] = r[1]]
           /\ nodesAtomic' = r[2]
           /\ incsSinceReset' = [incsSinceReset EXCEPT ![i] = @ + n]
           /\ incsSinceZero' = incsSinceZero + n
  /\ bursts' = [bursts EXCEPT ![i] = @ + 1]
  /\ UNCHANGED <<cphase, mphase>>
  /\ UNCHANGED <<chanVars, searcherVars, tableVars, pickerVars, boardVars, notCounterVars>>

\* id_loop: thread.nodes.flush() after the search of one depth
IdFlush(i) ==
  /\ cphase[i] = "nodes"
  /\ LET r == flush(counters[i], nodesAtomic)
     IN  /\ counters' = [counters EXCEPT ![i] = r[1]]
         /\ nodesAtomic' = r[2]
  /\ cphase' = [cphase EXCEPT ![i] = "flushed"]
  /\ UNCHANGED <<mphase, incsSinceReset, incsSinceZero, bursts>>
  /\ UNCHANGED <<chanVars, searcherVars, tableVars, pickerVars, boardVars, notCounterVars>>

\* id_loop: depth += 1 and the next search
IdDeepen(i) ==
  /\ cphase[i] = "flushed"
  /\ cphase' = [cphase EXCEPT ![i] = "nodes"]
  /\ UNCHANGED <<nodesAtomic, counters, mphase, incsSinceReset, incsSinceZero, bursts>>
  /\ UNCHANGED <<chanVars, searcherVars, tableVars, pickerVars, boardVars, notCounterVars>>

\* id_loop: break, num_searching.fetch_sub(1)
IdLeave(i) ==
  /\ cphase[i] = "flushed"
  /\ cphase' = [cphase EXCEPT ![i] = "tail"]
  /\ UNCHANGED <<nodesAtomic, counters, mphase, incsSinceReset, incsSinceZero, bursts>>
  /\ UNCHANGED <<chanVars, searcherVars, tableVars, pickerVars, boardVars, notCounterVars>>

\* id_loop: print_info with nodes.global() and the bestmove, then back to
\* rx.recv in worker_thread_loop
IdReturn(i) ==
  /\ cphase[i] = "tail"
  /\ cphase' = [cphase EXCEPT ![i] = "recv"]
  /\ UNCHANGED <<nodesAtomic, counters, mphase, incsSinceReset, incsSinceZero, bursts>>
  /\ UNCHANGED <<chanVars, searcherVars, tableVars, pickerVars, boardVars, notCounterVars>>

\* ---------------------------------------------------------------------
\* search/time_manager.rs: TimeManager::init and TimeManager::deepen.
\* ---------------------------------------------------------------------

\* u64 clock values are kept in TimeBits bits
TimeBits == 20

U64_MAX == 2 ^ TimeBits - 1

\* i64::MAX, the most `wtime` and `btime` parse to
I64_MAX == 2 ^ (TimeBits - 1) - 1

DEFAULT_MOVE_OVERHEAD == 20

\* calls of deepen in one search
MaxDeepens == 2

saturating_sub(a, b) == IF a >= b THEN a - b ELSE 0

\* a + b in u64: a panic in a build with overflow checks, the wrapped sum
\* in one without
AddOverflows(a, b) == a + b > U64_MAX
wrapping_add(a, b) == (a + b) % (U64_MAX + 1)

NoBudget == [set |-> FALSE]

\* what the loop over the limits of a `go` leaves: time and inc per
\* colour, movetime; U64_MAX and 0 where no limit names them
Limits(wt, bt, wi, bi, mt) ==
  [time |-> <<wt, bt>>, inc |-> <<wi, bi>>, movetime |-> mt]

TimeManager_init_m(stm, limits, move_overhead, checked) ==
  LET time == limits.time[stm + 1]
      inc_ == limits.inc[stm + 1]
      movetime == limits.movetime
      infinite == time = U64_MAX /\ limits.time[2 - stm] = U64_MAX
                    /\ movetime = U64_MAX
      hard_time == Min(time \div 2, saturating_sub(time, move_overhead))
      part == saturating_sub(time \div 64, move_overhead)
      soft_time == wrapping_add(part, inc_)
  IN  IF checked /\ AddOverflows(part, inc_)
      THEN [set |-> TRUE, panicked |-> TRUE, infinite |-> infinite,
            soft_time |-> 0, base_time |-> 0, hard_time |-> 0]
      ELSE [set |-> TRUE, panicked |-> FALSE, infinite |-> infinite,
            soft_time |-> soft_time, base_time |-> soft_time,
            hard_time |-> Min(hard_time,
                              saturating_sub(movetime, move_overhead))]

\* TimeManager::init for the side to move stm (White = 0), with the build's
\* overflow checks on or off
TimeManager_init(stm, limits, move_overhead, checked) ==
  LET time == limits.time[stm + 1]
      inc_ == limits.inc[stm + 1]
      movetime == limits.movetime
      infinite == time = U64_MAX /\ limits.time[2 - stm] = U64_MAX
                    /\ movetime = U64_MAX
      hard_time == Min(time \div 2, saturating_sub(time, move_overhead))
      part == saturating_sub(time \div 64, move_overhead)
      soft_time == Min(wrapping_add(part, inc_), hard_time)
  IN  IF checked /\ AddOverflows(part, inc_)
      THEN [set |-> TRUE, panicked |-> TRUE, infinite |-> infinite,
            soft_time |-> 0, base_time |-> 0, hard_time |-> 0]
      ELSE [set |-> TRUE, panicked |-> FALSE, infinite |-> infinite,
            soft_time |-> soft_time, base_time |-> soft_time,
            hard_time |-> Min(hard_time,
                              saturating_sub(movetime, move_overhead))]

\* TimeManager::deepen; the factors 2.5 - 1.5 * ratio and
\* max(1.8 - 0.1 * move_stability, 0.9) as fractions, the product cut to
\* an integer as the cast to u64 cuts it (the f64 product may differ from
\* the exact one in its last digits)
deepen(t, d, total_nodes, best_move_nodes, move_stability) ==
  IF d < 4 THEN t
  ELSE LET total == Max(total_nodes, 1)
           node_num == 5 * total - 3 * best_move_nodes
           stab_num == Max(18 - move_stability, 9)
           new_target ==
             Min((t.base_time * node_num * stab_num) \div (2 * total * 10),
                 t.hard_time)
       IN  [t EXCEPT !.soft_time = new_target]

TimeIdle ==
  /\ goArgs = <<>>
  /\ budget = NoBudget
  /\ deepens = 0

\* Searcher::search: time_manager.init(stm, limits)
TimeInit ==
  /\ goArgs # <<>>
  /\ ~budget.set
  /\ \E checked \in BOOLEAN :
       budget' = TimeManager_init(goArgs.stm, goArgs.limits,
                                  goArgs.move_overhead, checked)
  /\ UNCHANGED <<goArgs, deepens>>
  /\ UNCHANGED <<chanVars, searcherVars, tableVars, pickerVars, boardVars, notTimeVars>>

\* id_loop, after a depth: time_manager.deepen
TimeDeepen ==
  /\ budget.set
  /\ ~budget.panicked
  /\ deepens < MaxDeepens
  /\ \E d \in {3, 4}, nn \in {<<0, 0>>, <<8, 1>>, <<8, 8>>},
        move_stability \in {0, 5, 12} :
       budget' = deepen(budget, d, nn[1], nn[2], move_stability)
  /\ deepens' = deepens + 1
  /\ UNCHANGED goArgs
  /\ UNCHANGED <<chanVars, searcherVars, tableVars, pickerVars, boardVars, notTimeVars>>

ExtraIdle ==
  /\ NnueIdle
  /\ UciIdle
  /\ CounterIdle
  /\ TimeIdle

\* all of them but NnueIdle
NotNnueIdle ==
  /\ UciIdle
  /\ CounterIdle
  /\ TimeIdle

\* all of them but UciIdle
NotUciIdle ==
  /\ NnueIdle
  /\ CounterIdle
  /\ TimeIdle

\* all of them but CounterIdle
NotCounterIdle ==
  /\ NnueIdle
  /\ UciIdle
  /\ TimeIdle

\* all of them but TimeIdle
NotTimeIdle ==
  /\ NnueIdle
  /\ UciIdle
  /\ CounterIdle

\* ===== end of nnue, uci, counters, time =====


\* No picker and no node yet.
NoPicker == MovePicker_new(0, 0, FALSE, FALSE)
LoopIdle == [pc |-> "none", node |-> "none", mayskip |-> FALSE,
             skips |-> 0, skipAt |-> -1, seenAtSkip |-> {}]
PickerIdle ==
  /\ picker = NoPicker
  /\ loopc = LoopIdle
  /\ yielded = <<>>
  /\ pickPos = [see |-> [m \in NoisyMoves |-> FALSE],
                score |-> [m \in PickMoves |-> 0]]
PosIdle == PickerIdle /\ BoardIdle /\ ExtraIdle

\* search(): let mut move_picker = MovePicker::new(..) with skip_quiets and
\* skip_bad_noisies false, any TT move and any killer.
PickerNewSearch ==
  /\ loopc.pc = "none"
  /\ \E tt \in {0} \cup PickMoves, k \in {0} \cup PickMoves :
       picker' = MovePicker_new(tt, k, FALSE, FALSE)
  /\ loopc' = [loopc EXCEPT !.pc = "loop", !.node = "search"]
  /\ UNCHANGED <<pickPos, yielded, chanVars, searcherVars, tableVars,
               boardVars, extraVars>>

\* qsearch(): MovePicker::new(None, .., !in_check, 0, true)
PickerNewQsearch ==
  /\ loopc.pc = "none"
  /\ \E in_check \in BOOLEAN :
       picker' = MovePicker_new(0, 0, ~in_check, TRUE)
  /\ loopc' = [loopc EXCEPT !.pc = "loop", !.node = "qsearch"]
  /\ UNCHANGED <<pickPos, yielded, chanVars, searcherVars, tableVars,
               boardVars, extraVars>>

\* while let Some(mv) = move_picker.next(pos, thread): one call of next().
\* In search() a move that is not a tactic reaches the pruning block where
\* skip_quiets() may be called if no_more_quiets() is false (line 204).
PickerNext ==
  /\ loopc.pc = "loop"
  /\ LET r == next(picker, pickPos)
     IN  /\ picker' = r.p
         /\ yielded' = IF r.mv = 0 THEN yielded
                       ELSE Append(yielded, [mv |-> r.mv, stage |-> r.stage])
         /\ loopc' = [loopc EXCEPT
                        !.pc = IF r.mv = 0 THEN "done" ELSE "loop",
                        !.skips = 0,
                        !.mayskip = /\ r.mv # 0
                                    /\ loopc.node = "search"
                                    /\ r.mv \notin NoisyMoves
                                    /\ ~no_more_quiets(r.p)]
  /\ UNCHANGED <<pickPos, chanVars, searcherVars, tableVars,
               boardVars, extraVars>>

\* search(): move_picker.skip_quiets() of LMP, futility pruning or history
\* pruning (up to three calls for one move)
PickerSkipQuiets ==
  /\ loopc.pc = "loop"
  /\ loopc.mayskip
  /\ loopc.skips < 3
  /\ picker' = skip_quiets(picker)
  /\ loopc' = [loopc EXCEPT
                 !.skips = @ + 1,
                 !.skipAt = IF @ < 0 THEN Len(yielded) ELSE @,
                 !.seenAtSkip = IF loopc.skipAt < 0
                                THEN {picker.moves[i].mv : i \in 1..picker.index}
                                     \cap NoisyMoves
                                ELSE @]
  /\ UNCHANGED <<pickPos, yielded, chanVars, searcherVars, tableVars,
               boardVars, extraVars>>

\* ------------------------------------------------------ specifications
Init ==
  /\ ChannelInit(1)
  /\ upc = "idle"
  /\ SearcherInit
  /\ TTableInit(TTLen, 1)
  /\ mate = NoMate
  /\ PosIdle

\* The engine: the UCI thread and the worker; the subtrees below the root
\* node are searched in one step each.
Next ==
  \/ UciGo
  \/ UciGoCheck(GoLimitsAll)
  \/ UciSearchAssert
  \/ UciSearchStore
  \/ UciSearchInit
  \/ UciSendRet
  \/ UciStop
  \/ UciStopAssert
  \/ UciStopSet
  \/ UciWait
  \/ UciWaitLoad
  \/ UciWaitReload
  \/ UciWaitWait
  \/ UciSpuriousWake
  \/ UciWaitRet
  \/ UciQuit
  \/ UciJoin
  \/ SendLoad
  \/ SendWrite
  \/ SendStore
  \/ SendWake
  \/ SendWaitLoad
  \/ SendWait
  \/ RecvLoad(1)
  \/ RecvWait(1)
  \/ RecvHandle(1)
  \/ RecvSub(1)
  \/ RecvWake(1)
  \/ ChanSpuriousWake
  \/ WorkerSearch
  \/ WorkerQuit
  \/ IdIter
  \/ SearchPick(1)
  \/ SearchResearch(1)
  \/ SearchPostChild(1)
  \/ SearchStore(1)
  \/ IdAfter
  \/ IdTail
  \/ IdDec
  \/ IdZero
  \/ IdPrint
  \/ IdWake

Spec == Init /\ [][Next]_vars

\* The `go` commands of the search specification: a hard time budget, so
\* that the search can abort at any node, and no depth limit.
GoLimitsSearch == { Lim({"movetime"}, 0, None) }

\* The search in depth: `go` and `stop` on the UCI thread, and the worker
\* with MaxStack frames of search() on its call stack.
NextSearch ==
  \/ UciGo
  \/ UciGoCheck(GoLimitsSearch)
  \/ UciSearchAssert
  \/ UciSearchStore
  \/ UciSearchInit
  \/ UciSendRet
  \/ UciStop
  \/ UciStopAssert
  \/ UciStopSet
  \/ UciWaitLoad
  \/ UciWaitReload
  \/ UciWaitWait
  \/ UciSpuriousWake
  \/ UciWaitRet
  \/ SendLoad
  \/ SendWrite
  \/ SendStore
  \/ SendWake
  \/ SendWaitLoad
  \/ SendWait
  \/ RecvLoad(1)
  \/ RecvWait(1)
  \/ RecvHandle(1)
  \/ RecvSub(1)
  \/ RecvWake(1)
  \/ ChanSpuriousWake
  \/ WorkerSearch
  \/ IdIter
  \/ SearchEnter(MaxStack)
  \/ SearchAfterNull(MaxStack)
  \/ SearchPick(MaxStack)
  \/ SearchAfterSingular(MaxStack)
  \/ SearchResearch(MaxStack)
  \/ SearchPostChild(MaxStack)
  \/ SearchStore(MaxStack)
  \/ IdAfter
  \/ IdTail
  \/ IdDec
  \/ IdZero
  \/ IdPrint
  \/ IdWake

SpecSearch == Init /\ [][NextSearch]_vars

\* ------------------------------------------ stand-alone channel: callers
\* The sender calls send(m).
ChanSend ==
  /\ upc = "idle"
  /\ Len(sent) < MaxMsgs
  /\ \E m \in ChanMsgs : sMsg' = m
  /\ upc' = "send_load"
  /\ UNCHANGED <<msg, futex, num_receivers, sGen, sFutex, wpc, rGen, rFutex,
                 rRet, sent, handled>>
  /\ UNCHANGED searchVars

\* send() returns to its caller.
ChanSendRet ==
  /\ upc = "send_ret"
  /\ upc' = "idle"
  /\ sMsg' = NoMsg
  /\ UNCHANGED <<msg, futex, num_receivers, sGen, sFutex, wpc, rGen,
                 rFutex, rRet, sent, handled>>
  /\ UNCHANGED searchVars

\* recv() returns; the receiver calls recv again.
ChanRecvRet(r) ==
  /\ wpc[r] = "recv_ret"
  /\ wpc' = [wpc EXCEPT ![r] = "recv_load"]
  /\ rRet' = [rRet EXCEPT ![r] = NoMsg]
  /\ UNCHANGED <<msg, futex, num_receivers, upc, sMsg, sGen, sFutex, rGen,
                 rFutex, sent, handled>>
  /\ UNCHANGED searchVars

ChanInit ==
  /\ ChannelInit(NumReceivers)
  /\ upc = "idle"
  /\ SearcherInit
  /\ TTableInit(TTLen, 1)
  /\ mate = NoMate
  /\ PosIdle

ChanNext ==
  \/ ChanSend
  \/ SendLoad
  \/ SendWrite
  \/ SendStore
  \/ SendWake
  \/ SendWaitLoad
  \/ SendWait
  \/ ChanSendRet
  \/ \E r \in Receivers : RecvLoad(r)
  \/ \E r \in Receivers : RecvWait(r)
  \/ \E r \in Receivers : RecvHandle(r)
  \/ \E r \in Receivers : RecvSub(r)
  \/ \E r \in Receivers : RecvWake(r)
  \/ \E r \in Receivers : ChanRecvRet(r)
  \/ ChanSpuriousWake

SpecChan == ChanInit /\ [][ChanNext]_vars

\* ---- the transposition table under concurrent calls
\* Position hashes: HashA and HashB share an entry and differ in the bits
\* in which two stored depths differ; HashC lies in another entry.
HashA == <<1, 0, 0, 32769>>
HashB == <<1, 0, 0, 32771>>
HashC == <<1, 0, 0, 1>>

\* The calls the search threads make.
TTStoreCalls ==
  {StoreArgs(HashA, 1, 0, 0, 0, 0, TTFlagExact, FALSE),
   StoreArgs(HashA, 3, 0, 0, 0, 0, TTFlagExact, FALSE),
   StoreArgs(HashB, 1, 0, 0, 0, 0, TTFlagExact, FALSE),
   StoreArgs(HashC, 1, 0, 0, 0, 9, TTFlagLower, TRUE)}
TTFetchCalls == {FetchArgs(HashA, 0), FetchArgs(HashB, 0)}

RECURSIVE SumTo(_, _)
SumTo(f, n) == IF n = 0 THEN 0 ELSE f[n] + SumTo(f, n - 1)
\* Calls made so far by all threads.
CallsMade == SumTo(tops, NumTTThreads)

TTStoreCall(t) == CallsMade < MaxTTOps /\ \E a \in TTStoreCalls : TTCall(t, a)
TTFetchCall(t) == CallsMade < MaxTTOps /\ \E a \in TTFetchCalls : TTCall(t, a)

InitTT ==
  /\ ChannelInit(1)
  /\ upc = "idle"
  /\ SearcherInit
  /\ TTableInit(TTLen, NumTTThreads)
  /\ mate = NoMate
  /\ PosIdle

NextTT ==
  \E t \in 1..NumTTThreads :
    \/ TTStoreCall(t)
    \/ TTFetchCall(t)
    \/ TTLoadKey(t)
    \/ TTLoadData(t)
    \/ TTStoreKey(t)
    \/ TTStoreData(t)

SpecTT == InitTT /\ [][NextTT]_vars

\* ---- the move loop of one node over its MovePicker
\* The positions: which noisy moves pass cmp_see, the tactic-history score
\* of each noisy move and the quiet-history score of each quiet move.
PickPositions ==
  {[see |-> sv, score |-> sc] :
     sv \in [NoisyMoves -> BOOLEAN],
     sc \in {f \in [PickMoves -> {-1, 1}] :
               \A m \in PickMoves \ NoisyMoves :
                 f[m] = IF m % 2 = 0 THEN 1 ELSE -1}}

InitPicker ==
  /\ ChannelInit(1)
  /\ upc = "idle"
  /\ SearcherInit
  /\ TTableInit(TTLen, 1)
  /\ mate = NoMate
  /\ picker = NoPicker
  /\ loopc = LoopIdle
  /\ yielded = <<>>
  /\ pickPos \in PickPositions
  /\ BoardIdle
  /\ ExtraIdle

NextPicker ==
  \/ PickerNewSearch
  \/ PickerNewQsearch
  \/ PickerNext
  \/ PickerSkipQuiets

SpecPicker == InitPicker /\ [][NextPicker]_vars

\* ---- one thread: two stores, the table's age bumped in between, and a
\* fetch of the hash stored last at the ply it was stored at
MaxAge == 1

StoreCalls ==
  {StoreArgs(h, d, 2, 7, sc, 0, f, pv) :
     h \in {HashA, HashB}, d \in {1, 3}, sc \in {100, -(MIN_MATE - 5)},
     f \in {TTFlagExact, TTFlagUpper}, pv \in BOOLEAN}

StoreCall == tops[1] < 2 /\ \E a \in StoreCalls : TTCall(1, a)

FetchStored ==
  /\ tops[1] = 2
  /\ LET a == storeLog[Len(storeLog)].args
     IN  TTCall(1, FetchArgs(a.hash, a.ply))

\* TTable::age: fetch_update(|age| Some((age + 1) % 32))
TTAge ==
  /\ tpc[1] = "idle"
  /\ tops[1] = 1
  /\ age < MaxAge
  /\ age' = (age + 1) % 32
  /\ UNCHANGED <<entries, tpc, targ, tloc, tops, rets, entryTag, ttag,
                 storeLog, engineVars>>

\* ===== board specifications =====

\* ---------------------------------------------------------------------
\* SpecBoard: positions read from FEN, played on for MaxWalk plies with
\* generated moves, written to FEN and read back.
\* ---------------------------------------------------------------------

StartFens == {StartPosFen, PinnedEpFen, LegalEpFen, FrcFen, TwoRooksFen, PromoFen, LateFen}

InitBoard ==
  /\ ChannelInit(1)
  /\ upc = "idle"
  /\ SearcherInit
  /\ TTableInit(TTLen, 1)
  /\ mate = NoMate
  /\ PickerIdle
  /\ ExtraIdle
  /\ board \in { read_fen(f) : f \in StartFens }
  /\ walk = 0
  /\ lastMove = NoMove
  /\ fenText = NoFen
  /\ fenMode = FALSE
  /\ reparsed = <<>>

NextBoard ==
  \/ BoardMakeMove
  \/ BoardFen
  \/ BoardReadFen

SpecBoard == InitBoard /\ [][NextBoard]_vars

\* SpecUci: the same positions, played on through `position ... moves`.
NextUci ==
  \/ UciPositionMove
  \/ BoardFen
  \/ BoardReadFen

SpecUci == InitBoard /\ [][NextUci]_vars

\* ===== end of board specifications =====

NextStore ==
  \/ StoreCall
  \/ FetchStored
  \/ TTAge
  \/ TTLoadKey(1)
  \/ TTLoadData(1)
  \/ TTStoreKey(1)
  \/ TTStoreData(1)

InitStore ==
  /\ ChannelInit(1)
  /\ upc = "idle"
  /\ SearcherInit
  /\ TTableInit(TTLen, 1)
  /\ mate = NoMate
  /\ PosIdle

SpecStore == InitStore /\ [][NextStore]_vars

\* ---- one thread: store a score at ply p, fetch it at ply p and at ply q
ScoreSamples ==
  LET hi == (MAX_MATE - 1)..INFINITE
  IN  hi \cup {-s : s \in hi} \cup {0, 100, -100}

MateStore ==
  /\ tops[1] = 0
  /\ TTCall(1, StoreArgs(HashA, 1, mate.p, 0, mate.s, 0, TTFlagExact, FALSE))
MateFetchP == tops[1] = 1 /\ TTCall(1, FetchArgs(HashA, mate.p))
MateFetchQ == tops[1] = 2 /\ TTCall(1, FetchArgs(HashA, mate.q))

InitMate ==
  /\ ChannelInit(1)
  /\ upc = "idle"
  /\ SearcherInit
  /\ TTableInit(TTLen, 1)
  /\ mate \in [s : ScoreSamples, p : 0..MAX_PLY, q : 0..MAX_PLY]
  /\ PosIdle

NextMate ==
  \/ MateStore
  \/ MateFetchP
  \/ MateFetchQ
  \/ TTLoadKey(1)
  \/ TTLoadData(1)
  \/ TTStoreKey(1)
  \/ TTStoreData(1)

SpecMate == InitMate /\ [][NextMate]_vars

\* ------------------------------------------------------------- claims
IsPrefix(s, t) == Len(s) <= Len(t) /\ \A i \in 1..Len(s) : s[i] = t[i]

\* C1: send(m) returns only when every receiver has run its handler on m and
\* the outstanding-receiver count of the futex word is back to 0; the count
\* is 0 whenever a send starts.
C1_SendBlocksUntilAllHandled ==
  /\ upc = "send_ret" =>
       /\ unpack_futex(futex)[1] = 0
       /\ \A r \in Receivers : handled[r] = sent /\ wpc[r] \notin {"recv_handle"}
  /\ upc = "send_load" => unpack_futex(futex)[1] = 0

C1_Witness == upc = "send_ret" /\ Len(sent) = 2

\* C2: every receiver handles exactly the sent messages, once each and in
\* send order, and never reads the cell while the sender writes it.
C2_ExactlyOnceInOrder ==
  /\ \A r \in Receivers :
       /\ IsPrefix(handled[r], sent)
       /\ Len(sent) - Len(handled[r]) <= 1
  /\ ~(upc = "send_write" /\ \E r \in Receivers : wpc[r] = "recv_handle")

C2_Witness ==
  /\ Len(sent) = MaxMsgs
  /\ \A r \in Receivers : handled[r] = sent
  /\ sent[1] # sent[2]

\* ---- the searcher
Printed == wId >= 1 /\ printCount = wId /\ bestmove # 0

Elems(seq) == {seq[i] : i \in 1..Len(seq)}

\* The search started last by Searcher::search (its pseudo-searcher is
\* stored) has not yet been finished by the worker: the worker has not
\* taken it up, or is in id_loop before its last store to num_searching.
SearchPending ==
  /\ searchCount >= 1
  /\ \/ wId < searchCount
     \/ /\ wId = searchCount
        /\ wpc[1] \in {"id_iter", "searching", "id_after", "id_tail", "id_dec",
                       "id_zero"}

\* C3: from the store of the pseudo-searcher until the worker has finished
\* the search num_searching is non-zero, and it becomes 0 only by the store
\* of the last searching thread at the end of id_loop.
C3_NeverFalselyIdle ==
  /\ [](SearchPending => num_searching # 0)
  /\ [][(num_searching # 0 /\ num_searching' = 0) => wpc[1] = "id_zero"]_vars

C3_Witness ==
  /\ num_searching = 1
  /\ upc = "idle"
  /\ wpc[1] = "recv_ret"
  /\ rRet[1].cmd = "Search"

\* C4: a call of Searcher::wait() that found the search running (it entered
\* its wait loop) returns only after the bestmove line of that search has
\* been printed.
C4_WaitReturnsAfterBestmove == upc = "wait_ret" => printCount = searchCount

\* C5: in an infinite search (no wtime, btime, movetime, depth, nodes) the
\* bestmove line is printed only after the stop flag has been set.
C5_InfiniteWaitsForStop ==
  (Printed /\ wLimits.kinds \cap {"wtime", "btime", "movetime", "depth", "nodes"} = {})
    => wId \in stopIds

C5_Witness ==
  /\ Printed
  /\ wLimits.kinds = {}
  /\ depth = MAX_PLY
  /\ ~abort_now

\* C6 as stated: after an abort the bestmove is the head of the PV latched
\* by the last completed iteration, or the first root move when no
\* iteration completed.
C6_AbortKeepsLatchedOrFirstMove ==
  (Printed /\ abort_now) =>
    IF completed THEN bestmove = latchedPv[1]
    ELSE root_moves # <<>> => bestmove = root_moves[1]

\* C6 amended: after an abort the bestmove is the head of the PV latched by
\* the last completed iteration; when no iteration completed it is a root
\* move that the aborted depth-1 iteration searched to the end (the head
\* of its partial PV), and the first entry of root_moves only when no root
\* move was searched to the end.
C6_AbortKeepsLatchedOrPartial ==
  (Printed /\ abort_now) =>
    IF completed THEN bestmove = latchedPv[1]
    ELSE IF d1Done # {} THEN bestmove \in d1Done
    ELSE bestmove = root_moves[1]

C6_Witness ==
  /\ Printed
  /\ abort_now
  /\ completed
  /\ ss0pv # latchedPv
  /\ bestmove = latchedPv[1]

\* C7: with searchmoves, the head of every latched root PV and the printed
\* bestmove are elements of the searchmoves list.
C7_BestmoveInSearchMoves ==
  wLimits.searchmoves.some =>
    /\ latchedPv # <<>> => latchedPv[1] \in Elems(wLimits.searchmoves.moves)
    /\ Printed => bestmove \in Elems(wLimits.searchmoves.moves)

\* C8: once abort_now is set, no node of that search stores into the
\* transposition table.
C8_NoStoreAfterAbort == ~ttStoreAfterAbort

C8_Witness ==
  /\ abort_now
  /\ ttStored
  /\ Len(stack) = 2
  /\ stack[2].pc \in {"post_child", "after_lmr", "after_zw"}
  /\ stack[2].seen >= 1

\* ---- the transposition table
\* The hash and the data word of the store call with the given tag; tag 0
\* is the empty entry.
TagHash(id) == IF id = 0 THEN Zero64 ELSE storeLog[id].hash
TagData(id) == IF id = 0 THEN Zero64 ELSE storeLog[id].data

Fetches == UNION {{rets[t][i] : i \in 1..Len(rets[t])} : t \in DOMAIN rets}

MateDone == tops[1] = 3 /\ Len(rets[1]) = 2

Sgn(x) == IF x < 0 THEN -1 ELSE 1

\* Plies from the root to the mate a mate score stands for.
MatePlies(s) == (I16_MAX - MAX_PLY) - Abs(s)

\* C10 as stated: for every mate score s and plies p, q <= MAX_PLY, a store
\* of s at ply p followed by a fetch at ply p returns s, and a fetch at ply
\* q returns the mate re-based as in the example (mate-in-5 stored at ply
\* 10 is mate-in-13 at ply 2: the distance grows by p - q).
C10_MateFixupAsStated ==
  (MateDone /\ Abs(mate.s) >= I16_MAX - 2 * MAX_PLY
            /\ Abs(mate.s) <= I16_MAX - MAX_PLY) =>
    /\ rets[1][1].ret.some
    /\ rets[1][1].ret.data.score = mate.s
    /\ rets[1][2].ret.some
    /\ MatePlies(rets[1][2].ret.data.score) = MatePlies(mate.s) + mate.p - mate.q

\* C10 amended: for every mate score s that is at least p plies from the
\* root, a store of s at ply p followed by a fetch at ply p returns s, and
\* a fetch at ply q returns the score of the same sign whose distance to
\* the mate is that of s less p plus q.
C10_MateFixupFromNode ==
  (MateDone /\ Abs(mate.s) >= I16_MAX - 2 * MAX_PLY
            /\ Abs(mate.s) <= I16_MAX - MAX_PLY
            /\ MatePlies(mate.s) >= mate.p) =>
    /\ rets[1][1].ret.some
    /\ rets[1][1].ret.data.score = mate.s
    /\ rets[1][2].ret.some
    /\ rets[1][2].ret.data.score = Sgn(mate.s) * (Abs(mate.s) + mate.p - mate.q)
    /\ MatePlies(rets[1][2].ret.data.score) = MatePlies(mate.s) - mate.p + mate.q

C10_Witness ==
  /\ MateDone
  /\ mate.s = -(I16_MAX - MAX_PLY - 9)
  /\ mate.p = 4
  /\ mate.q = 2
  /\ rets[1][1].ret.data.score = mate.s
  /\ rets[1][2].ret.data.score = mate.s - 2

\* ---- C11
\* The fetch that followed the second store, and that store's log record
StoreDone == tops[1] = 3 /\ tpc[1] = "idle" /\ Len(storeLog) = 2
LastStore == storeLog[2]
LastFetch == rets[1][1].ret
SlotData(e) == unpack(e.data)
SlotOccupied(e) == e.key # Zero64 \/ e.data # Zero64

\* C11 (first half): a store replaces whatever the slot holds; the fetch
\* that follows it at the same ply returns the new depth, eval, score and
\* bound.
C11_StoreAlwaysReplaces ==
  StoreDone =>
    /\ LastFetch.some
    /\ LastFetch.data.depth = LastStore.args.depth
    /\ LastFetch.data.eval = LastStore.args.eval
    /\ LastFetch.data.score = LastStore.args.score
    /\ Flags_tt_flag(LastFetch.data.flags) = LastStore.args.tt_flag

\* C11: ... and the PV flag of the entry that occupied the slot is
\* preserved in the new entry.
C11_PvFlagOfOlderEntryKept ==
  (StoreDone /\ SlotOccupied(LastStore.slot)) =>
    /\ C11_StoreAlwaysReplaces
    /\ Flags_pv(LastFetch.data.flags) = Flags_pv(SlotData(LastStore.slot).flags)

C11_Witness ==
  /\ StoreDone
  /\ SlotOccupied(LastStore.slot)
  /\ storeLog[1].hash # LastStore.hash
  /\ SlotData(LastStore.slot).depth > LastStore.args.depth
  /\ SlotData(LastStore.slot).flags \div 8 # age
  /\ LastFetch.some
\* ---- C12, C13, C14
\* The priority of the stage a move was yielded in.
Rank(st) ==
  CASE st = "TTMove" -> 1
    [] st = "YieldGoodNoisy" -> 2
    [] st = "KillerMove" -> 3
    [] st = "YieldQuiet" -> 4
    [] OTHER -> 5
YieldedIn(st) == {yielded[i].mv : i \in {j \in DOMAIN yielded : yielded[j].stage = st}}
GoodNoisies == {m \in NoisyMoves \ {picker.tt_move} : pickPos.see[m]}
BadNoisies == {m \in NoisyMoves \ {picker.tt_move} : ~pickPos.see[m]}

\* C12: over the next() calls of one picker the stages of the yields never
\* go back: the TT move (if legal) is the first yield, then come the noisy
\* moves that pass cmp_see, all of them before anything later, then the
\* killer, then moves of the quiet generator, then noisy moves that failed
\* cmp_see.
C12_StagePriority ==
  /\ \A i, j \in DOMAIN yielded :
       i < j => Rank(yielded[i].stage) <= Rank(yielded[j].stage)
  /\ \A i \in DOMAIN yielded :
       LET y == yielded[i]
       IN  /\ y.stage = "TTMove" => i = 1 /\ y.mv = picker.tt_move
           /\ y.stage = "YieldGoodNoisy" => y.mv \in GoodNoisies
           /\ y.stage = "KillerMove" => y.mv = picker.killer_move
           /\ y.stage = "YieldQuiet" =>
                y.mv \in QuietMoves \ {picker.tt_move, picker.killer_move}
           /\ y.stage = "YieldBadNoisy" => y.mv \in BadNoisies
  /\ (yielded # <<>> /\ is_legal(pickPos, picker.tt_move)) =>
       yielded[1] = [mv |-> picker.tt_move, stage |-> "TTMove"]
  /\ (loopc.pc = "done" \/ \E i \in DOMAIN yielded : Rank(yielded[i].stage) > 2)
       => GoodNoisies \subseteq YieldedIn("YieldGoodNoisy")
  /\ (loopc.pc = "done" /\ ~picker.skip_quiets) =>
       YieldedIn("YieldQuiet")
         = QuietMoves \ {picker.tt_move, picker.killer_move}

C12_Witness ==
  /\ loopc.pc = "done"
  /\ \A st \in {"TTMove", "YieldGoodNoisy", "KillerMove", "YieldQuiet",
                "YieldBadNoisy"} : YieldedIn(st) # {}

\* The yields after the first call of skip_quiets()
AfterSkip == SubSeq(yielded, loopc.skipAt + 1, Len(yielded))
TailIn(st) == {AfterSkip[i].mv : i \in {j \in DOMAIN AfterSkip : AfterSkip[j].stage = st}}

C14_KillerQuietAndLegal ==
  \A i \in DOMAIN yielded :
    yielded[i].stage = "KillerMove" =>
      /\ yielded[i].mv # 0
      /\ yielded[i].mv # picker.tt_move
      /\ is_legal(pickPos, yielded[i].mv)
      /\ yielded[i].mv \in QuietMoves

\* C14 without the quietness: present, not the TT move, legal, and
\* skip_quiets not set when the stage is reached.
C14_KillerLegal ==
  \A i \in DOMAIN yielded :
    yielded[i].stage = "KillerMove" =>
      /\ yielded[i].mv # 0
      /\ yielded[i].mv # picker.tt_move
      /\ is_legal(pickPos, yielded[i].mv)
      /\ loopc.skipAt \notin 0..(i - 1)

\* ===== board claims =====

\* ---------------------------------------------------------------------
\* Board claims
\* ---------------------------------------------------------------------

OnBoard == board # NoBoard

\* the move made last was a pawn's double push
LastWasDoublePush ==
  /\ lastMove.flag = "None"
  /\ board.mailbox[lastMove.to] = "Pawn"
  /\ Abs(sq_rank(lastMove.from) - sq_rank(lastMove.to)) = 2

\* C15: in every position reached by legal moves, with no checker, with one
\* and with two or more, the candidate moves is_legal accepts are exactly
\* the moves gen_moves emits.
C15_IsLegalAgreesWithGenMoves ==
  OnBoard => { mv \in all_moves : Board_is_legal(board, mv) } = gen_moves(board)

\* a position in double check, reached over the board, in which the king
\* has a legal move and a candidate king move that is not legal
C15_Witness ==
  /\ OnBoard
  /\ walk > 0
  /\ Cardinality(board.checkers) >= 2
  /\ \E mv \in all_moves : Board_is_legal(board, mv) /\ mv \in gen_moves(board)
  /\ \E mv \in all_moves :
       /\ mv.from = king(board, board.stm)
       /\ mv.flag = "None"
       /\ ~Board_is_legal(board, mv)
       /\ mv \notin gen_moves(board)

\* the color of the piece on an occupied square
ColorOn(b, sq) == IF sq \in b.colors[Black] THEN Black ELSE White

\* the Zobrist terms of the pieces of the given kinds and colors, read off
\* the mailbox
PieceTerms(b, kinds, cols) ==
  { ZobristPiece(sq, b.mailbox[sq], ColorOn(b, sq)) :
      sq \in { s \in Squares : /\ b.mailbox[s] \in kinds
                               /\ ColorOn(b, s) \in cols } }

\* the XOR of the terms of the whole position: the terms are distinct, so
\* their XOR is their set
PositionTerms(b) ==
  PieceTerms(b, Pieces, {White, Black})
    \cup (IF b.stm = Black THEN {ZobristBlackToMove} ELSE {})
    \cup { ZobristCastles(b.castling_rights[cd[1]][cd[2]], cd[1]) :
             cd \in { x \in {White, Black} \X {"Long", "Short"} :
                        b.castling_rights[x[1]][x[2]] # NoFile } }
    \cup (IF b.en_passant # NoEp THEN {ZobristEnPassant(b.en_passant.file)} ELSE {})

\* C16: after any sequence of legal moves the five incrementally updated
\* hashes equal the XOR, taken from scratch, of the Zobrist terms of the
\* position: all of them for hash, the pawns for pawn_hash, knights, bishops
\* and kings for minor_hash, rooks and queens for major_hash, and each
\* color's non-pawns for nonpawn_hash.
C16_HashesMatchRecomputation ==
  OnBoard =>
    /\ board.hash = PositionTerms(board)
    /\ board.pawn_hash = PieceTerms(board, {"Pawn"}, {White, Black})
    /\ board.minor_hash = PieceTerms(board, {"Knight", "Bishop", "King"}, {White, Black})
    /\ board.major_hash = PieceTerms(board, {"Rook", "Queen"}, {White, Black})
    /\ \A c \in {White, Black} :
         board.nonpawn_hash[c] = PieceTerms(board, Pieces \ {"Pawn"}, {c})

\* two plies from the start of a walk, the second an en-passant capture of
\* the pawn the first one pushed
C16_Witness ==
  /\ OnBoard
  /\ walk = 2
  /\ lastMove.flag = "EnPassant"
  /\ board.hash = PositionTerms(board)

\* C17: after every legal move, the Chess960 castles included, the mailbox
\* and the bitboards name the same piece on every square, no square has
\* two colors, and each color has exactly one king.
C17_MailboxAgreesWithBitboards ==
  (OnBoard /\ walk > 0) =>
    /\ \A sq \in Squares :
         /\ \A p \in Pieces : (board.mailbox[sq] = p) <=> (sq \in board.pieces[p])
         /\ (board.mailbox[sq] # NoPiece) <=> (sq \in occupied(board))
    /\ board.colors[White] \cap board.colors[Black] = {}
    /\ \A c \in {White, Black} : Cardinality(colored_pieces(board, "King", c)) = 1

\* a castle was just made in which the king took the rook's square and the
\* rook the king's
C17_Witness ==
  /\ OnBoard
  /\ lastMove.flag = "Castle"
  /\ board.mailbox[lastMove.to] = "King"
  /\ board.mailbox[lastMove.from] = "Rook"
  /\ lastMove.to \in colored_pieces(board, "King", 1 - board.stm)

\* the king is not attacked once the pawn on `attacker` has taken the pawn
\* on `victim` en passant and stands on `dst`: no enemy piece left on the
\* board reaches the king's square
EpCaptureIsSafe(b, attacker, victim, dst) ==
  LET us == b.stm
      occ == (occupied(b) \ {attacker, victim}) \cup {dst}
      them == b.colors[1 - us] \ {victim}
      k == king(b, us)
  IN  /\ pawn_attacks[k][us] \cap (them \cap b.pieces["Pawn"]) = {}
      /\ knight_moves[k] \cap (them \cap b.pieces["Knight"]) = {}
      /\ king_moves[k] \cap (them \cap b.pieces["King"]) = {}
      /\ \A s \in them \cap (b.pieces["Rook"] \cup b.pieces["Queen"]) :
           k \notin rook_moves(s, occ)
      /\ \A s \in them \cap (b.pieces["Bishop"] \cup b.pieces["Queen"]) :
           k \notin bishop_moves(s, occ)

\* the pawn of the side to move `df` files beside the pawn pushed last may
\* take it en passant
EpLegalFrom(b, df) ==
  LET victim == lastMove.to
      f == sq_file(victim) + df
      attacker == Square_new(f, sq_rank(victim))
      dst == Square_new(sq_file(victim), relative_to(5, b.stm))
  IN  /\ LastWasDoublePush
      /\ f \in 0 .. 7
      /\ attacker \in colored_pieces(b, "Pawn", b.stm)
      /\ EpCaptureIsSafe(b, attacker, victim, dst)

\* C18: in every position a move has led to, en_passant is set exactly when
\* the move was a double pawn push that some pawn of the side to move can
\* capture en passant without leaving its king attacked; then it names the
\* pushed pawn's file, and its left and right bits are set exactly for the
\* pawns that can.
C18_EnPassantOnlyIfLegal ==
  (OnBoard /\ walk > 0) =>
    /\ (board.en_passant # NoEp) <=> (EpLegalFrom(board, -1) \/ EpLegalFrom(board, 1))
    /\ board.en_passant # NoEp =>
         /\ board.en_passant.file = sq_file(lastMove.to)
         /\ board.en_passant.left = EpLegalFrom(board, -1)
         /\ board.en_passant.right = EpLegalFrom(board, 1)

\* a pawn was pushed two squares between two enemy pawns, the left one
\* pinned to its king: en_passant is set with the right bit alone
C18_Witness ==
  /\ OnBoard
  /\ walk > 0
  /\ LastWasDoublePush
  /\ \A df \in {-1, 1} :
       Square_new(sq_file(lastMove.to) + df, sq_rank(lastMove.to))
         \in colored_pieces(board, "Pawn", board.stm)
  /\ board.en_passant = EnPassantFile_new(sq_file(lastMove.to), FALSE, TRUE)
  /\ ~EpLegalFrom(board, -1)
  /\ EpLegalFrom(board, 1)

\* a pawn was pushed two squares next to an enemy pawn whose capture would
\* uncover its own king, and en_passant stayed unset
C18_WitnessUnset ==
  /\ OnBoard
  /\ walk > 0
  /\ LastWasDoublePush
  /\ \E df \in {-1, 1} :
       /\ sq_file(lastMove.to) + df \in 0 .. 7
       /\ Square_new(sq_file(lastMove.to) + df, sq_rank(lastMove.to))
            \in colored_pieces(board, "Pawn", board.stm)
  /\ board.en_passant = NoEp

\* C19: the halfmove clock is at most 100 in every position that legal
\* moves lead to.
C19_HalfmoveClockAtMost100 ==
  OnBoard => board.halfmove_clock <= 100

\* the fields a FEN carries agree
SameFenFields(p, q) ==
  /\ p.mailbox = q.mailbox
  /\ p.colors = q.colors
  /\ p.stm = q.stm
  /\ p.castling_rights = q.castling_rights
  /\ p.en_passant = q.en_passant
  /\ p.halfmove_clock = q.halfmove_clock
  /\ p.fullmove_count = q.fullmove_count

\* C20: read_fen of the FEN written from a position of a legal walk
\* succeeds and gives back the position: placement, side to move, castling
\* rook files, en-passant descriptor, halfmove clock and fullmove number.
C20_FenRoundTrip ==
  reparsed # <<>> =>
    /\ reparsed[1] # NoBoard
    /\ SameFenFields(reparsed[1], board)

\* C20 for the FENs that name the castling rooks by file (chess960 set)
\* and carry a clock below 100
C20_RoundTripOfShredderFen ==
  (reparsed # <<>> /\ fenMode /\ board.halfmove_clock < 100) =>
    /\ reparsed[1] # NoBoard
    /\ SameFenFields(reparsed[1], board)

\* C20 for the FENs with K, Q, k, q: all but the castling rook files
C20_RoundTripOfStandardFen ==
  (reparsed # <<>> /\ ~fenMode /\ board.halfmove_clock < 100) =>
    /\ reparsed[1] # NoBoard
    /\ SameFenFields([reparsed[1] EXCEPT !.castling_rights = board.castling_rights],
                     board)

\* ===== end of board claims =====

\* ===== further claims =====

\* ---------------------------------------------------------------------
\* The rules of chess, stated on the position alone: how each piece
\* moves, and that the mover's king is not attacked afterwards.
\* ---------------------------------------------------------------------

\* a piece of color `by` attacks sq
AttackedBy(b, sq, by) ==
  \/ \E p \in colored_pieces(b, "Pawn", by) : sq \in pawn_attacks[p][by]
  \/ \E n \in colored_pieces(b, "Knight", by) : sq \in knight_moves[n]
  \/ \E k \in colored_pieces(b, "King", by) : sq \in king_moves[k]
  \/ \E o \in orth_sliders(b, by) : sq \in rook_moves(o, occupied(b))
  \/ \E d \in diag_sliders(b, by) : sq \in bishop_moves(d, occupied(b))

\* the squares the piece on `from` moves to, captures included
RuleReach(b, from) ==
  LET piece == b.mailbox[from]
      stm == b.stm
      occ == occupied(b)
      reach ==
        CASE piece = "Knight" -> knight_moves[from]
          [] piece = "Bishop" -> bishop_moves(from, occ)
          [] piece = "Rook" -> rook_moves(from, occ)
          [] piece = "Queen" -> rook_moves(from, occ) \cup bishop_moves(from, occ)
          [] piece = "King" -> king_moves[from]
          [] piece = "Pawn" ->
               pawn_pushes(from, stm, occ)
                 \cup (pawn_attacks[from][stm] \cap b.colors[1 - stm])
          [] OTHER -> {}
  IN  reach \ b.colors[stm]

\* the plain moves and the promotions
RulePlainMoves(b) ==
  UNION { UNION { IF b.mailbox[from] = "Pawn" /\ sq_rank(to) = relative_to(7, b.stm)
                    THEN { Move_new_promotion(from, to, PromotionPieces[i]) : i \in 1 .. 4 }
                    ELSE { Move_new(from, to, "None") }
                  : to \in RuleReach(b, from) }
          : from \in b.colors[b.stm] }

\* en passant: the move before was a double push of a pawn, prev its
\* record; a pawn beside the pushed one takes it on the square passed over
RuleEnPassant(b, prev) ==
  IF /\ prev.flag = "None"
     /\ b.mailbox[prev.to] = "Pawn"
     /\ Abs(prev.to - prev.from) = 16
    THEN { Move_new(from, (prev.from + prev.to) \div 2, "EnPassant") :
             from \in { s \in colored_pieces(b, "Pawn", b.stm) :
                          /\ sq_rank(s) = sq_rank(prev.to)
                          /\ Abs(sq_file(s) - sq_file(prev.to)) = 1 } }
    ELSE {}

\* castling (as king takes own rook): the right is still held, every
\* square the king and the rook pass over or land on is empty but for the
\* two of them, and no square from the king's to its destination is attacked
RuleCastles(b) ==
  LET stm == b.stm
      k == king(b, stm)
  IN  { Move_new(k, Square_new(b.castling_rights[stm][dir], sq_rank(k)), "Castle") :
          dir \in { d \in {"Long", "Short"} :
            LET f == b.castling_rights[stm][d]
                rook == Square_new(f, sq_rank(k))
                king_to == Square_new(king_dst(d), sq_rank(k))
                rook_to == Square_new(rook_dst(d), sq_rank(k))
            IN  /\ f # NoFile
                /\ (between_inclusive[k][king_to] \cup between_inclusive[rook][rook_to])
                     \cap (occupied(b) \ {k, rook}) = {}
                /\ \A s \in between_inclusive[k][king_to] : ~AttackedBy(b, s, 1 - stm) } }

\* the legal moves: a move of the kinds above after which the mover's king
\* is not attacked
RuleLegalMoves(b, prev) ==
  { mv \in RulePlainMoves(b) \cup RuleEnPassant(b, prev) \cup RuleCastles(b) :
      LET after == make_move(b, mv)
      IN  ~AttackedBy(after, king(after, b.stm), 1 - b.stm) }

\* C21: in every position the moves gen_moves emits are the legal moves of
\* chess: each leaves the mover's king unattacked after make_move, and no
\* legal move is left out.
C21_GenMovesAreTheLegalMoves ==
  OnBoard => gen_moves(board) = RuleLegalMoves(board, lastMove)

\* a piece pinned to its king has a move along the pin line and a move off
\* it; the first is emitted, the second is not
C21_Witness ==
  /\ OnBoard
  /\ walk > 0
  /\ \E mv \in gen_moves(board) :
       /\ mv.from \in board.pinned
       /\ mv.to \in line[king(board, board.stm)][mv.from]
  /\ \E from \in board.pinned \cap board.colors[board.stm] :
       \E to \in RuleReach(board, from) :
         /\ to \notin line[king(board, board.stm)][from]
         /\ \A mv \in gen_moves(board) : ~(mv.from = from /\ mv.to = to)

\* the king is in check by one piece and the check is met in each way:
\* the king steps aside, the checker is taken, a piece is put between
C21_WitnessEvasions ==
  /\ OnBoard
  /\ walk > 0
  /\ Cardinality(board.checkers) = 1
  /\ \E mv \in gen_moves(board) : mv.from = king(board, board.stm)
  /\ \E mv \in gen_moves(board) :
       mv.from # king(board, board.stm) /\ mv.to \in board.checkers

\* a castle and an en-passant capture are among the legal moves
C21_WitnessCastle ==
  OnBoard /\ walk > 0 /\ \E mv \in gen_moves(board) : mv.flag = "Castle"

C21_WitnessEnPassant ==
  OnBoard /\ \E mv \in gen_moves(board) : mv.flag = "EnPassant"

\* ---------------------------------------------------------------------
\* SpecNnue: a Position with its Nnue, moves made and unmade over the
\* board, the accumulators brought up to date at any point.
\* ---------------------------------------------------------------------

NnueFens == {LegalEpFen, FrcFen, PromoFen, LeftKingFen}

InitNnue ==
  /\ ChannelInit(1)
  /\ upc = "idle"
  /\ SearcherInit
  /\ TTableInit(TTLen, 1)
  /\ mate = NoMate
  /\ PickerIdle
  /\ board \in { read_fen(f) : f \in NnueFens }
  /\ walk = 0
  /\ lastMove = NoMove
  /\ fenText = NoFen
  /\ fenMode = FALSE
  /\ reparsed = <<>>
  /\ nnue = Nnue_new(board)
  /\ history = <<>>
  /\ NotNnueIdle

NextNnue ==
  \/ PositionMakeMove
  \/ PositionUnmakeMove
  \/ PositionEval

SpecNnue == InitNnue /\ [][NextNnue]_vars

\* the accumulator a reset on board b gives the perspective
ResetValues(b, perspective) ==
  Nnue_reset(Nnue_new(b), b, perspective).stack[0].values[perspective]

\* the current frame is clean for both perspectives, as update() leaves it
Updated == \A c \in {White, Black} : ~nnue.stack[nnue.idx].dirty[c]

\* C22: once update() has run, the current frame's accumulator of each
\* perspective is the one a full reset on the current board gives.
C22_RefreshEquivalence ==
  (nnue # NoNnue /\ Updated) =>
    \A c \in {White, Black} :
      nnue.stack[nnue.idx].values[c] = ResetValues(board, c)

\* a castle is on the stack whose king crossed the D/E border while the
\* rook it is written towards stands on the king's side of it
CastleAcross(h, b) ==
  /\ h.mv.flag = "Castle"
  /\ (sq_file(h.mv.from) > 3) = (sq_file(h.mv.to) > 3)
  /\ (sq_file(h.mv.from) > 3) # (sq_file(king(b, 1 - b.stm)) > 3)

\* the moves made since the root: history holds the move made before each
\* board, so the move out of history[i] is the next entry's, or lastMove
MovesMade ==
  [i \in 1 .. Len(history) |->
     [mv |-> IF i < Len(history) THEN history[i + 1].mv ELSE lastMove,
      after |-> IF i < Len(history) THEN history[i + 1].board ELSE board]]

NoCastleAcross ==
  \A i \in 1 .. Len(history) : ~CastleAcross(MovesMade[i], MovesMade[i].after)

\* C22 on the walks without such a castle
C22_RefreshEquivalenceBarCastles ==
  (nnue # NoNnue /\ Updated /\ NoCastleAcross) =>
    \A c \in {White, Black} :
      nnue.stack[nnue.idx].values[c] = ResetValues(board, c)

\* two moves deep, the second a king's step across the D/E border, the
\* frames brought up to date only after it
C22_WitnessAcross ==
  /\ nnue # NoNnue
  /\ Updated
  /\ walk = 2
  /\ nnue.stack[1].updates # NoUpdates
  /\ lastMove.flag = "None"
  /\ history[2].board.mailbox[lastMove.from] = "King"
  /\ (sq_file(lastMove.from) > 3) # (sq_file(lastMove.to) > 3)
  /\ NoCastleAcross

\* ---------------------------------------------------------------------
\* SpecEngine: the engine with a position set up reads command lines.
\* ---------------------------------------------------------------------

InitEngine ==
  /\ ChannelInit(1)
  /\ upc = "idle"
  /\ SearcherInit
  /\ TTableInit(TTLen, 1)
  /\ mate = NoMate
  /\ PickerIdle
  /\ board \in { read_fen(f) : f \in EngineFens }
  /\ walk = 0
  /\ lastMove = NoMove
  /\ fenText = NoFen
  /\ fenMode = FALSE
  /\ reparsed = <<>>
  /\ NotUciIdle
  /\ uciChess960 \in BOOLEAN
  /\ linesRead = 0
  /\ reply = NoReply
  /\ prevBoard = NoBoard

NextEngine ==
  \/ EnginePositionLine
  \/ EngineGoLine

SpecEngine == InitEngine /\ [][NextEngine]_vars

\* C23: a line whose move list holds a token that is no legal move where
\* it stands is answered with InvalidMove of that token, leaves the
\* engine's position as it was and starts no search.
C23_InvalidMoveRejectedUntouched ==
  (reply.result # "" /\ reply.bad # <<>>) =>
    /\ reply.result = "InvalidMove"
    /\ reply.token = reply.bad
    /\ board = prevBoard
    /\ ~reply.searched

\* C23 without the answer: such a line changes nothing and starts nothing
C23_BadLineChangesNothing ==
  (reply.result # "" /\ reply.bad # <<>>) =>
    /\ reply.result # "Ok"
    /\ board = prevBoard
    /\ ~reply.searched

\* C23 for the tokens made of one-byte characters
C23_AsciiRejected ==
  (reply.result # "" /\ reply.bad # <<>> /\ str_len(reply.bad) = Len(reply.bad)) =>
    /\ reply.result = "InvalidMove"
    /\ reply.token = reply.bad
    /\ board = prevBoard
    /\ ~reply.searched

\* a `position` line whose first move is legal and whose second is not
C23_WitnessSecondIllegal ==
  /\ reply.kind = "position"
  /\ reply.result = "InvalidMove"
  /\ reply.bad \notin JunkTokens
  /\ board = prevBoard
  /\ \E f \in EngineFens :
       /\ read_fen(f) # prevBoard
       /\ MovesOfText(read_fen(f), reply.bad, uciChess960) = {}
       /\ \E mv \in gen_moves(read_fen(f)) :
            MovesOfText(make_move(read_fen(f), mv), reply.bad, uciChess960) # {}

\* ---------------------------------------------------------------------
\* SpecCounter: searches counting their nodes.
\* ---------------------------------------------------------------------

InitCounter ==
  /\ ChannelInit(1)
  /\ upc = "idle"
  /\ SearcherInit
  /\ TTableInit(TTLen, 1)
  /\ mate = NoMate
  /\ PickerIdle
  /\ BoardIdle
  /\ NotCounterIdle
  /\ nodesAtomic = 0
  /\ counters = [i \in CounterIds |-> BufferedCounter_new]
  /\ cphase = [i \in CounterIds |-> "recv"]
  /\ mphase = "idle"
  /\ incsSinceReset = [i \in CounterIds |-> 0]
  /\ incsSinceZero = 0
  /\ bursts = [i \in CounterIds |-> 0]

NextCounter ==
  \/ SearcherZero
  \/ SearcherSend
  \/ \E i \in CounterIds :
       \/ WorkerReset(i)
       \/ SearchNodes(i)
       \/ IdFlush(i)
       \/ IdDeepen(i)
       \/ IdLeave(i)
       \/ IdReturn(i)

SpecCounter == InitCounter /\ [][NextCounter]_vars

InCounterSpec == counters # <<>>

\* what the counters hold back from the atomic
RECURSIVE Unflushed(_)
Unflushed(n) == IF n = 0 THEN 0 ELSE counters[n].buffer + Unflushed(n - 1)

\* C24: local() is the number of inc() calls on the counter since its last
\* reset, global() is at most the number of inc() calls on all counters
\* since the atomic was zeroed, every counter holds back fewer than 1024
\* increments, and the atomic is behind the true total by less than 1024
\* per counter.
C24_BufferedCounterContract ==
  InCounterSpec =>
    /\ \A i \in CounterIds :
         /\ local(counters[i]) = incsSinceReset[i]
         /\ global(counters[i], nodesAtomic) <= incsSinceZero
         /\ counters[i].buffer < FLUSH_THRESHOLD
    /\ nodesAtomic <= incsSinceZero
    /\ incsSinceZero - nodesAtomic < FLUSH_THRESHOLD * NumCounters

\* C24, the lag exactly: the atomic is behind by what the counters hold back
C24_LagIsTheUnflushed ==
  InCounterSpec => incsSinceZero - nodesAtomic = Unflushed(NumCounters)

\* one counter has flushed at the threshold and counts on, the other holds
\* back increments too: global() of each is short of the true total
C24_Witness ==
  /\ InCounterSpec
  /\ nodesAtomic >= FLUSH_THRESHOLD
  /\ \A i \in CounterIds :
       /\ counters[i].buffer > 0
       /\ global(counters[i], nodesAtomic) < incsSinceZero
  /\ \E i \in CounterIds : local(counters[i]) > FLUSH_THRESHOLD

\* a second search: the atomic zeroed, a counter reset and counting again
C24_WitnessSecondSearch ==
  /\ InCounterSpec
  /\ \E i \in CounterIds :
       /\ bursts[i] > local(counters[i])
       /\ local(counters[i]) > 0
       /\ incsSinceZero = local(counters[i])

\* ---------------------------------------------------------------------
\* SpecTime: one `go` with its limits, its budgets set and deepened.
\* ---------------------------------------------------------------------

\* clock times, increments, movetimes and overheads of a `go`
GoTimes == {U64_MAX, 0, 1, 40, 64, 1000, 60000, I64_MAX}
GoIncs == {0, 1, 500, U64_MAX}
GoMoveTimes == {U64_MAX, 0, 10, 500, 70000}
GoOverheads == {0, DEFAULT_MOVE_OVERHEAD, 65535}

InitTime ==
  /\ ChannelInit(1)
  /\ upc = "idle"
  /\ SearcherInit
  /\ TTableInit(TTLen, 1)
  /\ mate = NoMate
  /\ PickerIdle
  /\ BoardIdle
  /\ NotTimeIdle
  /\ \E stm \in {White, Black}, t \in GoTimes, i \in GoIncs,
        mt \in GoMoveTimes, o \in GoOverheads, ot \in {U64_MAX, 7} :
       goArgs = [stm |-> stm,
                 limits |-> IF stm = White THEN Limits(t, ot, i, 0, mt)
                            ELSE Limits(ot, t, 0, i, mt),
                 move_overhead |-> o]
  /\ budget = NoBudget
  /\ deepens = 0

NextTime ==
  \/ TimeInit
  \/ TimeDeepen

SpecTime == InitTime /\ [][NextTime]_vars

\* T, I, O and the movetime of the `go`
ClockT == goArgs.limits.time[goArgs.stm + 1]
ClockI == goArgs.limits.inc[goArgs.stm + 1]
ClockO == goArgs.move_overhead
ClockM == goArgs.limits.movetime

HardOfClock == Min(ClockT \div 2, saturating_sub(ClockT, ClockO))
SoftSum == saturating_sub(ClockT \div 64, ClockO) + ClockI

Budgeted == budget.set /\ ~budget.panicked

\* C25: after init hard = min(T/2, T - O) and soft = min(hard, T/64 - O + I),
\* and at all times hard <= T - O and soft <= hard.
C25_BudgetsFromClock ==
  Budgeted =>
    /\ deepens = 0 =>
         /\ budget.hard_time = HardOfClock
         /\ budget.soft_time = Min(budget.hard_time, SoftSum)
    /\ budget.hard_time <= saturating_sub(ClockT, ClockO)
    /\ budget.soft_time <= budget.hard_time

\* C25 as the code has it: movetime caps the hard budget after the soft
\* one was taken from the clock's hard budget, the sum T/64 - O + I is
\* taken in u64, and deepen caps the soft budget by the hard one.
C25_BudgetsWithMovetime ==
  Budgeted =>
    /\ deepens = 0 =>
         /\ budget.hard_time =
              Min(HardOfClock, saturating_sub(ClockM, ClockO))
         /\ budget.soft_time =
              Min(HardOfClock, SoftSum % (U64_MAX + 1))
    /\ budget.hard_time <= saturating_sub(ClockT, ClockO)
    /\ budget.soft_time <= HardOfClock
    /\ (ClockM = U64_MAX \/ (deepens > 0 /\ budget.soft_time # budget.base_time))
         => budget.soft_time <= budget.hard_time

\* C25 where it holds as stated: no movetime and a sum that fits
C25_ClockOnly ==
  (Budgeted /\ ClockM = U64_MAX /\ SoftSum <= U64_MAX) =>
    /\ deepens = 0 =>
         /\ budget.hard_time = HardOfClock
         /\ budget.soft_time = Min(budget.hard_time, SoftSum)
    /\ budget.hard_time <= saturating_sub(ClockT, ClockO)
    /\ budget.soft_time <= budget.hard_time

\* init panics only on a sum that does not fit
C25_PanicOnlyOnOverflow ==
  (budget.set /\ budget.panicked) => SoftSum > U64_MAX

\* a clock with increment and overhead where every part of the two minima
\* counts: T/2 < T - O, T/64 - O > 0, the sum below hard
C25_Witness ==
  /\ Budgeted
  /\ deepens = 0
  /\ ClockM = U64_MAX
  /\ ClockO > 0
  /\ ClockI > 0
  /\ saturating_sub(ClockT \div 64, ClockO) > 0
  /\ budget.soft_time < budget.hard_time
  /\ budget.hard_time < saturating_sub(ClockT, ClockO)

\* the overhead above the clock: both budgets 0 but for the increment
C25_WitnessSaturated ==
  /\ Budgeted
  /\ ClockM = U64_MAX
  /\ ClockT > 0
  /\ ClockT < ClockO
  /\ ClockI > 0
  /\ budget.hard_time = 0
  /\ budget.soft_time = 0

\* a movetime below the soft budget of the clock
C25_WitnessMovetime ==
  /\ Budgeted
  /\ deepens = 0
  /\ ClockM # U64_MAX
  /\ ClockT # U64_MAX
  /\ budget.soft_time > budget.hard_time

\* deepen has moved the soft budget
C25_WitnessDeepened ==
  /\ Budgeted
  /\ deepens > 0
  /\ budget.soft_time # budget.base_time
  /\ budget.soft_time > 0

\* ---------------------------------------------------------------------
\* SpecQuit: `go` and `quit` on the UCI thread, with threads that keep
\* running.
\* ---------------------------------------------------------------------

\* The `go` commands before a `quit`: an infinite search, one over an
\* empty searchmoves list, one with a time budget.
GoLimitsQuit ==
  { Lim({}, 0, None), Lim({}, 0, Some(<<>>)), Lim({"movetime"}, 0, None) }

\* the steps of the UCI thread that follow from a command read
UciStep ==
  \/ UciGoCheck(GoLimitsQuit)
  \/ UciSearchAssert
  \/ UciSearchStore
  \/ UciSearchInit
  \/ UciSendRet
  \/ UciJoin
  \/ SendLoad
  \/ SendWrite
  \/ SendStore
  \/ SendWake
  \/ SendWaitLoad
  \/ SendWait

\* the steps of the worker thread
WorkerStep ==
  \/ RecvLoad(1)
  \/ RecvWait(1)
  \/ RecvHandle(1)
  \/ RecvSub(1)
  \/ RecvWake(1)
  \/ WorkerSearch
  \/ WorkerQuit
  \/ IdIter
  \/ SearchPick(1)
  \/ SearchResearch(1)
  \/ SearchPostChild(1)
  \/ SearchStore(1)
  \/ IdAfter
  \/ IdTail
  \/ IdDec
  \/ IdZero
  \/ IdPrint
  \/ IdWake

NextQuit ==
  \/ UciGo
  \/ UciQuit
  \/ UciStep
  \/ WorkerStep
  \/ ChanSpuriousWake

\* Both threads are scheduled again and again: a thread that can take a
\* step takes one.  Commands arrive or not, and a futex wait need not
\* return without a wake.
SpecQuit ==
  /\ Init
  /\ [][NextQuit]_vars
  /\ WF_vars(UciStep)
  /\ WF_vars(WorkerStep)

QuitCalled == sMsg.cmd = "Quit"

\* C26: Searcher::quit returns: once it has set the stop flag and entered
\* send(Quit), the worker leaves its loop and the join returns.
C26_QuitReturns == QuitCalled ~> (upc = "exit")

\* C26 but for a worker that panics: quit returns or the process has exited
C26_QuitReturnsOrProcessExits == QuitCalled ~> (upc \in {"exit", "killed"})

\* the worker panics only at the end of a search without root moves
C26_KilledOnlyWithoutMoves == upc = "killed" => root_moves = <<>>

\* quit during an infinite search that waits for the stop flag, returned
C26_Witness ==
  /\ upc = "exit"
  /\ wpc[1] = "w_done"
  /\ searchCount > 0
  /\ TMInfinite(goLimits)
  /\ searchCount \in stopIds
  /\ printCount = searchCount

\* ---------------------------------------------------------------------
\* SpecChanLive: the stand-alone channel with threads that keep running
\* and receivers that keep calling recv.
\* ---------------------------------------------------------------------

\* the steps of the sender inside send(), and its return to the caller
SenderStep ==
  \/ SendLoad
  \/ SendWrite
  \/ SendStore
  \/ SendWake
  \/ SendWaitLoad
  \/ SendWait
  \/ ChanSendRet

\* the steps of receiver r inside recv(), and its next call of recv
ReceiverStep(r) ==
  \/ RecvLoad(r)
  \/ RecvWait(r)
  \/ RecvHandle(r)
  \/ RecvSub(r)
  \/ RecvWake(r)
  \/ ChanRecvRet(r)

\* A thread that can take a step takes one; a parked thread runs again
\* only when woken (no spurious wake-up is counted on), and the caller of
\* send sends or not.
SpecChanLive ==
  /\ ChanInit
  /\ [][ChanNext]_vars
  /\ WF_vars(SenderStep)
  /\ \A r \in 1 .. NumReceivers : WF_vars(ReceiverStep(r))

\* C27: every send returns, and every receiver handles every message sent.
C27_NoLostWakeup ==
  /\ (upc # "idle") ~> (upc = "idle")
  /\ \A r \in 1 .. NumReceivers : \A k \in 1 .. MaxMsgs :
       (Len(sent) >= k) ~> (Len(handled[r]) >= k)

\* the sender and one receiver are parked on the futex word, and the
\* other receiver is the last of the message and about to wake them
C27_Witness ==
  /\ upc = "send_parked"
  /\ \E r \in Receivers : \E q \in Receivers :
       /\ wpc[r] = "recv_parked"
       /\ wpc[q] = "recv_wake"

\* the sender parked behind a receiver that has not yet looked at the word
C27_WitnessSenderFirst ==
  /\ upc = "send_parked"
  /\ \E r \in Receivers : wpc[r] = "recv_load" /\ Len(handled[r]) < Len(sent)

\* ---------------------------------------------------------------------
\* The picker run to the end
\* ---------------------------------------------------------------------

LegalMoves == NoisyMoves \cup QuietMoves

\* a picker whose killer is absent or not a noisy move of the position,
\* on which skip_quiets() was not called and which does not skip the bad
\* noisies
PickedInFull ==
  /\ loopc.pc # "none"
  /\ loopc.skipAt < 0
  /\ ~picker.skip_bad_noisies
  /\ picker.killer_move \notin NoisyMoves

\* C28: such a picker yields legal moves, none of them twice, and when
\* next() has returned None it has yielded every legal move and returns
\* None again, unchanged.
C28_YieldsEveryLegalMoveOnce ==
  PickedInFull =>
    /\ \A i \in DOMAIN yielded : yielded[i].mv \in LegalMoves
    /\ \A i, j \in DOMAIN yielded : i < j => yielded[i].mv # yielded[j].mv
    /\ loopc.pc = "done" =>
         /\ {yielded[i].mv : i \in DOMAIN yielded} = LegalMoves
         /\ Len(yielded) = Cardinality(LegalMoves)
         /\ next(picker, pickPos).mv = 0
         /\ next(picker, pickPos).p = picker

\* a legal TT move, a legal quiet killer and a stashed bad noisy, all
\* legal moves yielded
C28_Witness ==
  /\ PickedInFull
  /\ loopc.pc = "done"
  /\ picker.tt_move \in LegalMoves
  /\ picker.killer_move \in QuietMoves
  /\ picker.bad_noisies > 0
  /\ Len(yielded) = Cardinality(LegalMoves)

\* ---------------------------------------------------------------------
\* Engine::stop and the end of the search
\* ---------------------------------------------------------------------

\* C29: when Searcher::stop evaluates assert!(is_running()) after
\* Engine::stop saw the search running, the search is still running.
C29_StopAssertNeverFails ==
  upc = "stop_assert" => IsRunning(num_searching)

\* the UCI thread has panicked in Searcher::stop only if the worker has
\* gone through the store of 0 of a search that `stop` did not end
C29_FailsOnlyAfterSearchEnd ==
  (upc = "panicked" /\ searchCount \notin stopIds) =>
    /\ num_searching = 0
    /\ wId = searchCount
    /\ wpc[1] \notin {"id_iter", "searching", "id_after", "id_tail", "id_dec",
                      "id_zero"}

\* the assertion is reached and holds: the stop flag is about to be set on
\* a search that runs
C29_WitnessAssertHolds ==
  /\ upc = "stop_set"
  /\ IsRunning(num_searching)
  /\ wpc[1] = "searching"

\* ---------------------------------------------------------------------
\* The move id_loop prints
\* ---------------------------------------------------------------------

\* C30: when id_loop selects the best move, root_pv or root_moves is not
\* empty, and the worker never panics.
C30_AlwaysAMoveToPrint ==
  /\ wpc[1] = "id_print" => (root_pv # <<>> \/ root_moves # <<>>)
  /\ wpc[1] # "w_exit"

\* with a root move there is a move to print, whatever the limits and
\* wherever the search was stopped
C30_MoveToPrintWithRootMoves ==
  (wpc[1] \in {"id_print", "w_exit"} /\ wLimits.searchmoves # Some(<<>>)) =>
    /\ wpc[1] = "id_print"
    /\ BestMove(root_pv, root_moves) # <<>>

\* a search stopped before its first iteration wrote a PV prints the first
\* root move
C30_WitnessFallback ==
  /\ wpc[1] = "id_print"
  /\ root_pv = <<>>
  /\ root_moves # <<>>

\* ===== end of further claims =====

====
